---- MODULE Spec2Model ----
(***************************************************************************)
(* cauldron: the article renderer (src/src/article/renderer.rs), that is   *)
(* the build of the widget tree from a parsed article (render_html,        *)
(* process_elements, element_to_widget, extract_text_with_formatting) and  *)
(* the asynchronous loading of images (create_image); the login and        *)
(* add-bookmark dialogs (src/src/modals); the article list of the App and  *)
(* its search (src/src/app.rs).                                            *)
(*                                                                         *)
(* Text is a sequence of one-character strings.  A parsed tree is a nested *)
(* record [tag, attrs, text, kids]; a widget is a record tagged by w.      *)
(***************************************************************************)
EXTENDS Integers, Sequences, FiniteSets, TLC

VARIABLES
    content_box,   \* ArticleRenderer.content_box: the sequence of child widgets
    vadjustment,   \* ArticleRenderer.vadjustment: the scroll position
    img,           \* the image containers of create_image, by identity
    tasks,         \* the futures spawned by the clicked handlers, in spawn order
    busy,          \* the task whose continuation the main context is running, or 0
    tiers,         \* the selectors the last process_elements evaluated, in order
    html,          \* the argument of the last SetContent handled (<<>>: none yet)
    hist,          \* per image container, the ImageStates observed so far
    login,         \* LoginDialog: its fields, its commands in flight, its output
    add_bookmark,  \* AddBookmarkDialog: likewise
    app            \* App: search_mode, search_query, all_articles, articles

vars == <<content_box, vadjustment, img, tasks, busy, tiers, html, hist,
          login, add_bookmark, app>>

\* The state of the article renderer, and the state of the other components.
renderer == <<content_box, vadjustment, img, tasks, busy, tiers, html, hist>>

components == <<login, add_bookmark, app>>

(***************************************************************************)
(* Bounds of the model.                                                    *)
(***************************************************************************)
\* The image containers created over a run.
MaxContainers == 2
\* The child elements of the body of a generated article.
MaxBodyKids == 2
\* The inline elements nested around a text node of a generated paragraph.
MaxInlineDepth == 2
\* The blockquotes nested in a blockquote of a generated article.
MaxQuoteDepth == 2
\* The children of a generated list.
MaxListKids == 2
\* The items of the long list of the generated articles.
LongListItems == 11
\* The commands of a dialog in flight at a time.
MaxCommands == 2
\* The articles a refresh delivers.
MaxArticles == 2

(***************************************************************************)
(* The parsed tree, as scraper presents it.                                *)
(***************************************************************************)
Elem(tag, attrs, kids) == [tag |-> tag, attrs |-> attrs, text |-> <<>>, kids |-> kids]

TextNode(chars) == [tag |-> "#text", attrs |-> <<>>, text |-> chars, kids |-> <<>>]

IsElement(node) == node.tag \notin {"#text", "#document"}

\* element.value().attr(name): <<>> is None, <<v>> is Some(v).
Attr(node, name) ==
    LET hits == SelectSeq(node.attrs, LAMBDA a : a[1] = name)
    IN  IF hits = <<>> THEN <<>> ELSE <<hits[1][2]>>

RECURSIVE TextOfKids(_)
\* element.text().collect::<String>(): the text of all descendants, in order.
TextOf(node) == IF node.tag = "#text" THEN node.text ELSE TextOfKids(node.kids)

TextOfKids(kids) ==
    IF kids = <<>> THEN <<>> ELSE TextOf(Head(kids)) \o TextOfKids(Tail(kids))

RECURSIVE TraverseKids(_, _)
\* The elements of the subtree of node in document order, each with the tag of
\* its parent: what a selector is matched against.
Traverse(node, parent) ==
    (IF IsElement(node) THEN <<[el |-> node, parent |-> parent]>> ELSE <<>>)
        \o TraverseKids(node.kids, node.tag)

TraverseKids(kids, parent) ==
    IF kids = <<>> THEN <<>>
    ELSE Traverse(Head(kids), parent) \o TraverseKids(Tail(kids), parent)

\* The tags of the elements below node.
TagsUnder(node) ==
    LET below == TraverseKids(node.kids, node.tag)
    IN  {below[i].el.tag : i \in DOMAIN below}

Elements(matches) == [i \in 1..Len(matches) |-> matches[i].el]

BlockTags == {"p", "h1", "h2", "h3", "h4", "h5", "h6", "pre", "blockquote", "ul", "ol", "img"}

\* A variant of body_selector: "body *" in place of "body > *", matching at
\* any depth below the wrapper.
body_selector_any_depth(m) == m.parent \notin {"#none", "#document", "html"}

\* Selector::parse("body > *")
body_selector(m) == m.parent = "body"

\* Selector::parse("html > *")
root_selector(m) == m.parent = "html"

\* Selector::parse("p, h1, h2, h3, h4, h5, h6, pre, blockquote, ul, ol, img")
all_selector(m) == m.el.tag \in BlockTags

\* Selector::parse("li")
li_selector(m) == m.el.tag = "li"

\* Selector::parse(selector), matched against an element
Matches(selector, m) ==
    CASE selector = "body > *" -> body_selector(m)
      [] selector = "html > *" -> root_selector(m)
      [] selector = "p, h1, h2, h3, h4, h5, h6, pre, blockquote, ul, ol, img" ->
            all_selector(m)
      [] selector = "li" -> li_selector(m)

\* document.select(selector)
DocumentSelect(document, selector) ==
    Elements(SelectSeq(Traverse(document, "#none"), LAMBDA m : Matches(selector, m)))

\* element.select(selector): the descendants of element, not element itself.
ElementSelect(element, selector) ==
    Elements(SelectSeq(TraverseKids(element.kids, element.tag),
                       LAMBDA m : Matches(selector, m)))

(***************************************************************************)
(* extract_text_with_formatting and html_escape::encode_text.              *)
(***************************************************************************)
\* A variant of EncodeChar: the ampersand is left as it is.
EncodeCharNoAmp(c) ==
    CASE c = "<" -> <<"&", "l", "t", ";">>
      [] c = ">" -> <<"&", "g", "t", ";">>
      [] OTHER   -> <<c>>

\* html_escape::encode_text, one character
EncodeChar(c) ==
    CASE c = "&" -> <<"&", "a", "m", "p", ";">>
      [] c = "<" -> <<"&", "l", "t", ";">>
      [] c = ">" -> <<"&", "g", "t", ";">>
      [] OTHER   -> <<c>>

RECURSIVE encode_text(_)
encode_text(s) ==
    IF s = <<>> THEN <<>> ELSE EncodeChar(Head(s)) \o encode_text(Tail(s))

RECURSIVE FormatChildren(_)
\* A variant of FormatChild: an anchor without href is emitted as a link with
\* an empty href.
FormatChildLinked(child) ==
    LET inner == FormatChildren(child.kids)
        href  == Attr(child, "href")
    IN  CASE child.tag = "#text" -> encode_text(child.text)
          [] child.tag \in {"strong", "b"} ->
                <<"<", "b", ">">> \o inner \o <<"<", "/", "b", ">">>
          [] child.tag \in {"em", "i"} ->
                <<"<", "i", ">">> \o inner \o <<"<", "/", "i", ">">>
          [] child.tag = "code" ->
                <<"<", "t", "t", ">">> \o encode_text(TextOf(child))
                    \o <<"<", "/", "t", "t", ">">>
          [] child.tag = "a" ->
                <<"<", "a", " ", "h", "r", "e", "f", "=", "\"">>
                    \o encode_text(IF href # <<>> THEN href[1] ELSE <<>>) \o <<"\"", ">">>
                    \o inner \o <<"<", "/", "a", ">">>
          [] child.tag = "#comment" -> <<>>
          [] OTHER -> TextOf(child)

\* A variant of FormatChild: an element with a block tag adds nothing.
FormatChildInlineOnly(child) ==
    LET inner == FormatChildren(child.kids)
        href  == Attr(child, "href")
    IN  CASE child.tag = "#text" -> encode_text(child.text)
          [] child.tag \in {"strong", "b"} ->
                <<"<", "b", ">">> \o inner \o <<"<", "/", "b", ">">>
          [] child.tag \in {"em", "i"} ->
                <<"<", "i", ">">> \o inner \o <<"<", "/", "i", ">">>
          [] child.tag = "code" ->
                <<"<", "t", "t", ">">> \o encode_text(TextOf(child))
                    \o <<"<", "/", "t", "t", ">">>
          [] child.tag = "a" ->
                IF href # <<>>
                THEN <<"<", "a", " ", "h", "r", "e", "f", "=", "\"">>
                        \o encode_text(href[1]) \o <<"\"", ">">>
                        \o inner \o <<"<", "/", "a", ">">>
                ELSE inner
          [] child.tag = "#comment" -> <<>>
          [] child.tag \in BlockTags -> <<>>
          [] OTHER -> TextOf(child)

\* One child of the element: a text node, or an element by its tag name.
FormatChild(child) ==
    LET inner == FormatChildren(child.kids)
        href  == Attr(child, "href")
    IN  CASE child.tag = "#text" -> encode_text(child.text)
          [] child.tag \in {"strong", "b"} ->
                <<"<", "b", ">">> \o inner \o <<"<", "/", "b", ">">>
          [] child.tag \in {"em", "i"} ->
                <<"<", "i", ">">> \o inner \o <<"<", "/", "i", ">">>
          [] child.tag = "code" ->
                <<"<", "t", "t", ">">> \o encode_text(TextOf(child))
                    \o <<"<", "/", "t", "t", ">">>
          [] child.tag = "a" ->
                IF href # <<>>
                THEN <<"<", "a", " ", "h", "r", "e", "f", "=", "\"">>
                        \o encode_text(href[1]) \o <<"\"", ">">>
                        \o inner \o <<"<", "/", "a", ">">>
                ELSE inner
          [] child.tag = "#comment" -> <<>>
          [] OTHER -> TextOf(child)

RECURSIVE FormatChildrenReversed(_)
\* A variant of FormatChildren: each child is put before the ones already
\* in result.
FormatChildrenReversed(kids) ==
    IF kids = <<>> THEN <<>>
    ELSE FormatChildrenReversed(Tail(kids)) \o FormatChild(Head(kids))

\* for child in element.children(): result.push_str(...)
FormatChildren(kids) ==
    IF kids = <<>> THEN <<>>
    ELSE FormatChild(Head(kids)) \o FormatChildren(Tail(kids))

extract_text_with_formatting(element) == FormatChildren(element.kids)

(***************************************************************************)
(* The widgets.                                                            *)
(***************************************************************************)
\* format!("{}", n)
RECURSIVE Decimal(_)
Decimal(n) ==
    LET d == <<"0", "1", "2", "3", "4", "5", "6", "7", "8", "9">>[(n % 10) + 1]
    IN  IF n < 10 THEN <<d>> ELSE Decimal(n \div 10) \o <<d>>

Label(css, markup) ==
    [w |-> "label", css |-> css, markup |-> markup, use_markup |-> TRUE]

\* format!("article-h{}", level)
HeadingCss(level) ==
    <<"article-h1", "article-h2", "article-h3", "article-h4", "article-h5", "article-h6">>[level]

create_heading(element, level) ==
    Label(HeadingCss(level), extract_text_with_formatting(element))

create_paragraph(element) ==
    Label("article-text", extract_text_with_formatting(element))

create_code_block(element) ==
    [w |-> "code_block", css |-> "article-code-block", text |-> TextOf(element)]

\* A variant of create_list: the items are numbered from zero.
create_list_zero_based(element, ordered) ==
    LET lis == ElementSelect(element, "li")
    IN  [w |-> "list", ordered |-> ordered,
         items |-> [index \in 1..Len(lis) |->
                      [prefix |-> IF ordered THEN Decimal(index - 1) \o <<".">>
                                  ELSE <<"bullet">>,
                       markup |-> extract_text_with_formatting(lis[index])]]]

\* One item per match of the li selector below element, in document order:
\* the prefix label (format!("{}.", index + 1) or the bullet, here "bullet")
\* and the content label.
create_list(element, ordered) ==
    LET lis == ElementSelect(element, "li")
    IN  [w |-> "list", ordered |-> ordered,
         items |-> [index \in 1..Len(lis) |->
                      [prefix |-> IF ordered THEN Decimal(index) \o <<".">>
                                  ELSE <<"bullet">>,
                       markup |-> extract_text_with_formatting(lis[index])]]]

\* The button of an image container; NoButton stands for a container that was
\* given none (empty src).
LoadButton == [sensitive |-> TRUE, label |-> "Load Image"]

NoButton == [sensitive |-> FALSE, label |-> ""]

\* A variant of NewImageContainer: the load starts with the build.
NewImageContainerEager(element) ==
    LET src     == Attr(element, "src")
        img_url == IF src = <<>> THEN <<>> ELSE src[1]
    IN  IF img_url # <<>>
        THEN [url |-> img_url, kids |-> <<"button">>,
              button |-> [sensitive |-> FALSE, label |-> "Loading..."],
              allocated_width |-> 0, size_request |-> <<>>]
        ELSE [url |-> img_url, kids |-> <<>>, button |-> NoButton,
              allocated_width |-> 0, size_request |-> <<>>]

\* create_image up to connect_clicked: the new container, with its button
\* when the src is not empty.  allocated_width is the width the layout has
\* given the container (0 until it is first allocated); size_request is what
\* set_size_request was called with on its picture (<<>>: no picture yet).
NewImageContainer(element) ==
    LET src     == Attr(element, "src")
        img_url == IF src = <<>> THEN <<>> ELSE src[1]
    IN  IF img_url # <<>>
        THEN [url |-> img_url, kids |-> <<"button">>, button |-> LoadButton,
              allocated_width |-> 0, size_request |-> <<>>]
        ELSE [url |-> img_url, kids |-> <<>>, button |-> NoButton,
              allocated_width |-> 0, size_request |-> <<>>]

create_image(element, id) ==
    [widget |-> [w |-> "image", css |-> "article-image", id |-> id],
     new    |-> <<NewImageContainer(element)>>]

NoWidget == [w |-> "none"]

RECURSIVE element_to_widget(_, _)
RECURSIVE AppendWidgets(_, _)
RECURSIVE AppendWidgetsReversed(_, _)
\* A variant of AppendWidgets: each widget is put before the ones already
\* there instead of after them.
AppendWidgetsReversed(nodes, id) ==
    IF nodes = <<>> THEN [widgets |-> <<>>, new |-> <<>>]
    ELSE LET first == IF IsElement(Head(nodes))
                      THEN element_to_widget(Head(nodes), id)
                      ELSE [some |-> FALSE, widget |-> NoWidget, new |-> <<>>]
             rest  == AppendWidgetsReversed(Tail(nodes), id + Len(first.new))
         IN  [widgets |-> rest.widgets \o (IF first.some THEN <<first.widget>> ELSE <<>>),
              new     |-> first.new \o rest.new]

\* The widgets of the candidates that element_to_widget accepts, in order;
\* new holds the image containers created, which get the ids id, id+1, ...
AppendWidgets(nodes, id) ==
    IF nodes = <<>> THEN [widgets |-> <<>>, new |-> <<>>]
    ELSE LET first == IF IsElement(Head(nodes))
                      THEN element_to_widget(Head(nodes), id)
                      ELSE [some |-> FALSE, widget |-> NoWidget, new |-> <<>>]
             rest  == AppendWidgets(Tail(nodes), id + Len(first.new))
         IN  [widgets |-> (IF first.some THEN <<first.widget>> ELSE <<>>) \o rest.widgets,
              new     |-> first.new \o rest.new]

\* A variant of create_blockquote: a blockquote inside the blockquote is
\* passed over.
create_blockquote_shallow(element, id) ==
    LET inner == AppendWidgets(SelectSeq(element.kids,
                                         LAMBDA n : n.tag # "blockquote"), id)
    IN  [widget |-> [w |-> "blockquote", css |-> "article-blockquote",
                     kids |-> inner.widgets],
         new    |-> inner.new]

\* for child in element.children(): the widget of each child element that
\* element_to_widget accepts is appended.
create_blockquote(element, id) ==
    LET inner == AppendWidgets(element.kids, id)
    IN  [widget |-> [w |-> "blockquote", css |-> "article-blockquote",
                     kids |-> inner.widgets],
         new    |-> inner.new]

Some(widget) == [some |-> TRUE, widget |-> widget, new |-> <<>>]

\* A variant of HeadingLevel: every heading is given level 1.
HeadingLevelFlat(tag) == 1

\* "h1" .. "h6" => level 1 .. 6
HeadingLevel(tag) ==
    CASE tag = "h1" -> 1 [] tag = "h2" -> 2 [] tag = "h3" -> 3
      [] tag = "h4" -> 4 [] tag = "h5" -> 5 [] tag = "h6" -> 6

element_to_widget(element, id) ==
    CASE element.tag \in {"h1", "h2", "h3", "h4", "h5", "h6"} ->
            Some(create_heading(element, HeadingLevel(element.tag)))
      [] element.tag = "p" -> Some(create_paragraph(element))
      [] element.tag = "pre" -> Some(create_code_block(element))
      [] element.tag = "blockquote" ->
            [some |-> TRUE] @@ create_blockquote(element, id)
      [] element.tag \in {"ul", "ol"} ->
            Some(create_list(element, element.tag = "ol"))
      [] element.tag = "img" -> [some |-> TRUE] @@ create_image(element, id)
      [] OTHER -> [some |-> FALSE, widget |-> NoWidget, new |-> <<>>]

(***************************************************************************)
(* process_elements and render_html.                                       *)
(***************************************************************************)
\* The candidates of a tier: the matches of its selector, in document order.
TierSelect(document, tier) ==
    CASE tier = 1 -> DocumentSelect(document, "body > *")
      [] tier = 2 -> DocumentSelect(document, "html > *")
      [] tier = 3 -> DocumentSelect(document,
                    "p, h1, h2, h3, h4, h5, h6, pre, blockquote, ul, ol, img")

RECURSIVE process_tiers_nonempty(_, _, _)
\* A variant of process_tiers: a tier wins as soon as its selector matches
\* an element, whether or not a widget was appended.
process_tiers_nonempty(document, tier, id) ==
    LET appended       == AppendWidgets(TierSelect(document, tier), id)
        found_elements == TierSelect(document, tier) # <<>>
    IN  IF found_elements \/ tier = 3
        THEN [widgets |-> appended.widgets, new |-> appended.new, tiers |-> <<tier>>]
        ELSE [process_tiers_nonempty(document, tier + 1, id)
                 EXCEPT !.tiers = <<tier>> \o @]

RECURSIVE process_tiers_two(_, _, _)
\* A variant of process_tiers: the third selector loop is left out.
process_tiers_two(document, tier, id) ==
    LET appended       == AppendWidgets(TierSelect(document, tier), id)
        found_elements == appended.widgets # <<>>
    IN  IF found_elements \/ tier = 2
        THEN [widgets |-> appended.widgets, new |-> appended.new, tiers |-> <<tier>>]
        ELSE [process_tiers_two(document, tier + 1, id) EXCEPT !.tiers = <<tier>> \o @]

RECURSIVE process_tiers_all(_, _, _)
\* A variant of process_tiers: the three selector loops all run, each
\* appending the widgets of its candidates after those of the loops before.
process_tiers_all(document, tier, id) ==
    LET appended == AppendWidgets(TierSelect(document, tier), id)
        later    == process_tiers_all(document, tier + 1, id + Len(appended.new))
    IN  IF tier = 3
        THEN [widgets |-> appended.widgets, new |-> appended.new, tiers |-> <<tier>>]
        ELSE [widgets |-> appended.widgets \o later.widgets,
              new     |-> appended.new \o later.new,
              tiers   |-> <<tier>> \o later.tiers]

RECURSIVE process_tiers(_, _, _)
\* The selector loops from tier on: each appends the widgets of its
\* candidates; the next loop runs only if found_elements is still false, that
\* is if nothing was appended.  tiers lists the selectors evaluated, in order.
process_tiers(document, tier, id) ==
    LET appended       == AppendWidgets(TierSelect(document, tier), id)
        found_elements == appended.widgets # <<>>
    IN  IF found_elements \/ tier = 3
        THEN [widgets |-> appended.widgets, new |-> appended.new, tiers |-> <<tier>>]
        ELSE [process_tiers(document, tier + 1, id) EXCEPT !.tiers = <<tier>> \o @]

process_elements(document, box, id) ==
    LET done == process_tiers(document, 1, id)
    IN  [box |-> box \o done.widgets, new |-> done.new, tiers |-> done.tiers]

\* A variant of RemoveAllChildren: the old children are left in place.
KeepAllChildren(box) == box

RECURSIVE RemoveAllChildren(_)
\* while let Some(child) = box.first_child() { box.remove(&child) }
RemoveAllChildren(box) ==
    IF box = <<>> THEN box ELSE RemoveAllChildren(Tail(box))

DebugLabel ==
    [w |-> "label", css |-> "",
     markup |-> <<"Debug: No content rendered. Check terminal for HTML output.">>,
     use_markup |-> FALSE]

\* A variant of render_html: a content_box that already shows something is
\* left as it is.
render_html_stale(box, document, id) ==
    LET built == process_elements(document, RemoveAllChildren(box), id)
    IN  IF box # <<>>
        THEN [box |-> box, new |-> <<>>, tiers |-> built.tiers]
        ELSE IF Len(built.box) = 0
             THEN [built EXCEPT !.box = Append(built.box, DebugLabel)]
             ELSE built

\* A variant of render_html: nothing is shown for an empty Document.
render_html_bare(box, document, id) ==
    process_elements(document, RemoveAllChildren(box), id)

render_html(box, document, id) ==
    LET built == process_elements(document, RemoveAllChildren(box), id)
    IN  IF Len(built.box) = 0
        THEN [built EXCEPT !.box = Append(built.box, DebugLabel)]
        ELSE built

(***************************************************************************)
(* The image containers and their tasks.                                   *)
(***************************************************************************)
Range(s) == {s[i] : i \in DOMAIN s}

RECURSIVE ImagesOf(_)
\* The image containers reachable from a sequence of widgets, in order.
ImagesOf(widgets) ==
    IF widgets = <<>> THEN <<>>
    ELSE LET first == Head(widgets)
         IN  (CASE first.w = "image" -> <<first.id>>
                [] first.w = "blockquote" -> ImagesOf(first.kids)
                [] OTHER -> <<>>) \o ImagesOf(Tail(widgets))

Displayed == Range(ImagesOf(content_box))

\* The ImageState a container shows: the button before and during the fetch,
\* nothing while bytes_to_texture runs, then the picture or the error icon.
ImageStateOf(container, decoding) ==
    CASE "picture" \in Range(container.kids) -> "Succeeded"
      [] "image-missing" \in Range(container.kids) -> "Failed"
      [] "button" \in Range(container.kids) ->
            IF container.button.sensitive THEN "NotRequested" ELSE "Requested"
      [] OTHER -> IF decoding THEN "Decoding" ELSE "NotRequested"

IsDecoding(tasksv, c) ==
    \E t \in DOMAIN tasksv : tasksv[t].container = c /\ tasksv[t].pc = "decoding"

ImageState(c) == ImageStateOf(img[c], IsDecoding(tasks, c))

\* The states observed so far, extended by what the containers show next.
Observe(imgv, tasksv) ==
    [c \in DOMAIN hist |->
        IF c \in DOMAIN imgv
           /\ ImageStateOf(imgv[c], IsDecoding(tasksv, c)) # hist[c][Len(hist[c])]
        THEN Append(hist[c], ImageStateOf(imgv[c], IsDecoding(tasksv, c)))
        ELSE hist[c]]

TasksOf(c) == {t \in DOMAIN tasks : tasks[t].container = c}

\* The downloads: their outcomes and what the decoder makes of the bytes.
Bytes == {"png", "garbage"}

FetchResults ==
    {[kind |-> "ok", bytes |-> b] : b \in Bytes}
        \cup {[kind |-> "transport_error", bytes |-> "none"],
              [kind |-> "join_error", bytes |-> "none"]}

NoResult == [kind |-> "pending", bytes |-> "none"]

\* The pictures among the downloads, with texture.width() and
\* texture.height(); anything else does not decode.
Pictures == {"png", "icon", "photo", "wide"}

Texture(bytes) ==
    CASE bytes = "png"   -> [width |-> 4, height |-> 3]
      [] bytes = "icon"  -> [width |-> 11, height |-> 15]
      [] bytes = "photo" -> [width |-> 1000, height |-> 700]
      [] bytes = "wide"  -> [width |-> 6144, height |-> 3072]

\* bytes_to_texture(bytes).is_ok()
bytes_to_texture(bytes) == bytes \in Pictures

(***************************************************************************)
(* The arithmetic of the sizing: i32 values converted to f64, divided and  *)
(* multiplied in f64 (round to nearest, ties to even) and converted back   *)
(* (as i32: toward zero).  A double above zero is [exp, bits]: 53 bits,    *)
(* the first one 1, bits[i] worth 2^(exp - i + 1).  The bits are worked    *)
(* out 13 at a time, which is exact for operands below 2^17.               *)
(***************************************************************************)
Min(a, b) == IF a < b THEN a ELSE b

RECURSIVE Pow2(_)
Pow2(k) ==
    IF k = 0 THEN 1
    ELSE IF k % 2 = 0 THEN Pow2(k \div 2) * Pow2(k \div 2)
    ELSE 2 * Pow2(k - 1)

\* The last width bits of k, the most significant first.
Bits(k, width) == [i \in 1..width |-> (k \div Pow2(width - i)) % 2]

\* The number of bits of k, for k below 2^30.
BitLength(k) == CHOOSE w \in 0..30 : k < Pow2(w) /\ (w = 0 \/ k >= Pow2(w - 1))

RECURSIVE Number(_)
\* The number that bits spell.
Number(bits) ==
    IF Len(bits) = 0 THEN 0
    ELSE IF Len(bits) = 1 THEN bits[1]
    ELSE LET half == Len(bits) \div 2
         IN  Number(SubSeq(bits, 1, half)) * Pow2(Len(bits) - half)
                 + Number(SubSeq(bits, half + 1, Len(bits)))

F64Zero == [exp |-> 0, bits |-> <<>>]

\* bits plus one in the last place; one bit longer when the carry runs out.
Increment(bits) ==
    IF \A i \in DOMAIN bits : bits[i] = 1
    THEN <<1>> \o [i \in DOMAIN bits |-> 0]
    ELSE LET j == CHOOSE i \in DOMAIN bits :
                      bits[i] = 0 /\ \A k \in (i + 1)..Len(bits) : bits[k] = 1
         IN  [i \in DOMAIN bits |-> IF i < j THEN bits[i] ELSE IF i = j THEN 1 ELSE 0]

\* The double nearest to the value of bits at exp, sticky telling that the
\* exact value has more below the bits given.
RoundF64(exp, bits, sticky) ==
    IF Len(bits) <= 53
    THEN [exp |-> exp, bits |-> bits \o [i \in 1..(53 - Len(bits)) |-> 0]]
    ELSE LET kept   == SubSeq(bits, 1, 53)
             rest   == sticky \/ \E i \in 55..Len(bits) : bits[i] = 1
             up     == bits[54] = 1 /\ (rest \/ kept[53] = 1)
             raised == Increment(kept)
         IN  IF ~up THEN [exp |-> exp, bits |-> kept]
             ELSE IF Len(raised) = 54
                  THEN [exp |-> exp + 1, bits |-> SubSeq(raised, 1, 53)]
                  ELSE [exp |-> exp, bits |-> raised]

RECURSIVE Quotient(_, _, _)
\* The bits of r / d after the binary point (r < d), widths[1] of them, then
\* widths[2], and so on, and what is left of r.
Quotient(r, d, widths) ==
    IF widths = <<>> THEN [bits |-> <<>>, rem |-> r]
    ELSE LET scaled == r * Pow2(Head(widths))
             rest   == Quotient(scaled % d, d, Tail(widths))
         IN  [bits |-> Bits(scaled \div d, Head(widths)) \o rest.bits,
              rem  |-> rest.rem]

RECURSIVE Exponent(_, _)
\* The e with 2^e <= a / b < 2^(e + 1).
Exponent(a, b) ==
    IF a >= 2 * b THEN Exponent(a, 2 * b) + 1
    ELSE IF a < b THEN Exponent(2 * a, b) - 1
    ELSE 0

\* a as f64 / b as f64, for a >= 0 and b > 0
F64Div(a, b) ==
    IF a = 0 THEN F64Zero
    ELSE LET e == Exponent(a, b)
             n == IF e < 0 THEN a * Pow2(0 - e) ELSE a
             d == IF e > 0 THEN b * Pow2(e) ELSE b
             q == Quotient(n - d, d, <<13, 13, 13, 13, 1>>)
         IN  RoundF64(e, <<1>> \o q.bits, q.rem # 0)

RECURSIVE TimesBits(_, _, _)
\* n times the number bits spell, plus carry in the last place, exactly.
TimesBits(bits, n, carry) ==
    IF bits = <<>> THEN Bits(carry, BitLength(carry))
    ELSE LET width == Min(13, Len(bits))
             low   == SubSeq(bits, Len(bits) - width + 1, Len(bits))
             total == Number(low) * n + carry
         IN  TimesBits(SubSeq(bits, 1, Len(bits) - width), n, total \div Pow2(width))
                 \o Bits(total % Pow2(width), width)

\* n as f64 * x, for n >= 0
F64Times(n, x) ==
    IF n = 0 \/ x = F64Zero THEN F64Zero
    ELSE LET product == TimesBits(x.bits, n, 0)
         IN  RoundF64(x.exp + Len(product) - 53, product, FALSE)

\* x as i32, for x below 2^31
F64ToI32(x) ==
    IF x = F64Zero \/ x.exp < 0 THEN 0 ELSE Number(SubSeq(x.bits, 1, x.exp + 1))

\* A variant of natural_width: the width of the texture is left out.
natural_width_stretched(texture, allocated_width) == Min(2048, allocated_width)

\* 2048.min(texture.width().min(container_clone2.allocated_width()))
natural_width(texture, allocated_width) ==
    Min(2048, Min(texture.width, allocated_width))

\* texture.height() as f64 / texture.width() as f64
aspect_ratio(texture) == F64Div(texture.height, texture.width)

\* (natural_width as f64 * aspect_ratio) as i32
natural_height(texture, allocated_width) ==
    F64ToI32(F64Times(natural_width(texture, allocated_width), aspect_ratio(texture)))

RemoveChild(kids, child) == SelectSeq(kids, LAMBDA k : k # child)

(***************************************************************************)
(* The articles: trees as Html::parse_document yields them, a #document    *)
(* whose html element holds a head and a body (or a frameset).             *)
(***************************************************************************)
Document(head_kids, body_kids) ==
    [tag |-> "#document", attrs |-> <<>>, text |-> <<>>,
     kids |-> <<Elem("html", <<>>, <<Elem("head", <<>>, head_kids),
                                     Elem("body", <<>>, body_kids)>>)>>]

FramesetDocument ==
    [tag |-> "#document", attrs |-> <<>>, text |-> <<>>,
     kids |-> <<Elem("html", <<>>, <<Elem("head", <<>>, <<>>),
                                     Elem("frameset", <<>>, <<>>)>>)>>]

Image(src) == Elem("img", <<<<"src", src>>>>, <<>>)

Para(chars) == Elem("p", <<>>, <<TextNode(chars)>>)

\* The articles of the image specification.
Articles ==
    { Document(<<>>, <<Elem("h1", <<>>, <<TextNode(<<"T">>)>>), Para(<<"x">>)>>),
      Document(<<>>, <<Image(<<"a">>), Image(<<"b">>)>>),
      Document(<<>>, <<Elem("blockquote", <<>>, <<Image(<<"a">>)>>), Image(<<>>)>>),
      Document(<<>>, <<Elem("div", <<>>, <<Image(<<"a">>)>>)>>),
      Document(<<>>, <<>>) }

(***************************************************************************)
(* The login dialog (src/src/modals/login.rs).  A String is a TLA+ string, *)
(* an Option is <<>> (None) or <<v>> (Some(v)).  commands holds the        *)
(* futures handed to oneshot_command that have not delivered their output, *)
(* each with the credentials it was given.                                 *)
(***************************************************************************)
LoginInit ==
    [username |-> "", password |-> "", error_message |-> <<>>,
     is_loading |-> FALSE, commands |-> <<>>, closed |-> FALSE, output |-> <<>>]

Usernames == {"", "u"}

Passwords == {"", "p", "q"}

\* What authenticate can fail with, as LoginFailed carries it.
LoginErrors == {"Invalid username or password", "Rate limited. Please try again later"}

RemoveAt(s, k) == SubSeq(s, 1, k - 1) \o SubSeq(s, k + 1, Len(s))

\* LoginInput::SetUsername(username)
SetUsername(username) ==
    /\ ~login.closed
    /\ login' = [login EXCEPT !.username = username, !.error_message = <<>>]
    /\ UNCHANGED <<renderer, add_bookmark, app>>

\* LoginInput::SetPassword(password)
SetPassword(password) ==
    /\ ~login.closed
    /\ login' = [login EXCEPT !.password = password, !.error_message = <<>>]
    /\ UNCHANGED <<renderer, add_bookmark, app>>

\* A variant of LoginSubmit: a Submit that is refused also ends the loading.
LoginSubmitResetting ==
    /\ ~login.closed
    /\ login.username # "" /\ login.password # "" => Len(login.commands) < MaxCommands
    /\ login' =
          IF login.username = "" \/ login.password = ""
          THEN [login EXCEPT !.error_message =
                                 <<"Please enter both username and password">>,
                             !.is_loading = FALSE]
          ELSE [login EXCEPT !.is_loading = TRUE,
                             !.error_message = <<>>,
                             !.commands = Append(@, [username |-> login.username,
                                                     password |-> login.password])]
    /\ UNCHANGED <<renderer, add_bookmark, app>>

\* LoginInput::Submit: the Login button, or Enter in the password row.
LoginSubmit ==
    /\ ~login.closed
    /\ login.username # "" /\ login.password # "" => Len(login.commands) < MaxCommands
    /\ login' =
          IF login.username = "" \/ login.password = ""
          THEN [login EXCEPT !.error_message =
                                 <<"Please enter both username and password">>]
          ELSE [login EXCEPT !.is_loading = TRUE,
                             !.error_message = <<>>,
                             !.commands = Append(@, [username |-> login.username,
                                                     password |-> login.password])]
    /\ UNCHANGED <<renderer, add_bookmark, app>>

\* LoginInput::Cancel: the Cancel button, or the dialog is closed.  The App
\* drops the dialog on its output, and its commands with it.
LoginCancel ==
    /\ ~login.closed
    /\ login' = [login EXCEPT !.closed = TRUE, !.output = <<"Cancelled">>,
                              !.commands = <<>>]
    /\ UNCHANGED <<renderer, add_bookmark, app>>

\* LoginCommandOutput::LoginSuccess, the output of command k
LoginSuccess(k) ==
    /\ ~login.closed
    /\ k \in DOMAIN login.commands
    /\ login' = [login EXCEPT !.is_loading = FALSE, !.closed = TRUE,
                              !.output = <<"LoggedIn">>, !.commands = <<>>]
    /\ UNCHANGED <<renderer, add_bookmark, app>>

\* LoginCommandOutput::LoginFailed(error), the output of command k
LoginFailed(k, error) ==
    /\ ~login.closed
    /\ k \in DOMAIN login.commands
    /\ login' = [login EXCEPT !.is_loading = FALSE,
                              !.error_message = <<error>>,
                              !.commands = RemoveAt(@, k)]
    /\ UNCHANGED <<renderer, add_bookmark, app>>

NextLogin ==
    \/ \E username \in Usernames : SetUsername(username)
    \/ \E password \in Passwords : SetPassword(password)
    \/ LoginSubmit
    \/ LoginCancel
    \/ \E k \in 1..MaxCommands : LoginSuccess(k)
    \/ \E k \in 1..MaxCommands, error \in LoginErrors : LoginFailed(k, error)

(***************************************************************************)
(* The add-bookmark dialog (src/src/modals/add_bookmark.rs).  A URL is a   *)
(* sequence of characters.  commands holds the requests handed to          *)
(* oneshot_command that have not delivered their output, each with the URL *)
(* it was given.  submitted is the URL the last Submit saw (<<>>: no       *)
(* Submit yet) and answered tells that a command output has been handled.  *)
(***************************************************************************)
AddBookmarkInit ==
    [url |-> <<>>, error_message |-> <<>>, is_loading |-> FALSE,
     commands |-> <<>>, closed |-> FALSE, output |-> <<>>,
     submitted |-> <<>>, answered |-> FALSE]

Urls ==
    { <<>>,
      <<"a">>,
      <<"f", "t", "p", ":", "/", "/", "a">>,
      <<"h", "t", "t", "p", ":", "/", "a">>,
      <<"H", "T", "T", "P", ":", "/", "/", "a">>,
      <<"h", "t", "t", "p", ":", "/", "/", "a">>,
      <<"h", "t", "t", "p", "s", ":", "/", "/", "a">> }

\* What add_bookmark can fail with, as AddFailed carries it.
AddErrors == {"Invalid credentials. Please log in again", "Rate limited. Please try again later"}

\* s.starts_with(prefix)
starts_with(s, prefix) ==
    Len(s) >= Len(prefix) /\ SubSeq(s, 1, Len(prefix)) = prefix

\* self.url.starts_with("http://") || self.url.starts_with("https://")
IsHttpUrl(url) ==
    \/ starts_with(url, <<"h", "t", "t", "p", ":", "/", "/">>)
    \/ starts_with(url, <<"h", "t", "t", "p", "s", ":", "/", "/">>)

\* AddBookmarkInput::SetUrl(url)
SetUrl(url) ==
    /\ ~add_bookmark.closed
    /\ add_bookmark' = [add_bookmark EXCEPT !.url = url, !.error_message = <<>>]
    /\ UNCHANGED <<renderer, login, app>>

\* A variant of AddBookmarkSubmit: a Submit that is refused also ends the
\* loading.
AddBookmarkSubmitResetting ==
    /\ ~add_bookmark.closed
    /\ IsHttpUrl(add_bookmark.url) => Len(add_bookmark.commands) < MaxCommands
    /\ add_bookmark' =
          LET seen == [add_bookmark EXCEPT !.submitted = <<add_bookmark.url>>]
          IN  IF add_bookmark.url = <<>>
              THEN [seen EXCEPT !.error_message = <<"Please enter a URL">>,
                                    !.is_loading = FALSE]
              ELSE IF ~IsHttpUrl(add_bookmark.url)
              THEN [seen EXCEPT !.error_message =
                                    <<"URL must start with http:// or https://">>,
                                    !.is_loading = FALSE]
              ELSE [seen EXCEPT !.is_loading = TRUE,
                                !.error_message = <<>>,
                                !.commands = Append(@, add_bookmark.url)]
    /\ UNCHANGED <<renderer, login, app>>

\* AddBookmarkInput::Submit: the Add button, or Enter in the URL row.
AddBookmarkSubmit ==
    /\ ~add_bookmark.closed
    /\ IsHttpUrl(add_bookmark.url) => Len(add_bookmark.commands) < MaxCommands
    /\ add_bookmark' =
          LET seen == [add_bookmark EXCEPT !.submitted = <<add_bookmark.url>>]
          IN  IF add_bookmark.url = <<>>
              THEN [seen EXCEPT !.error_message = <<"Please enter a URL">>]
              ELSE IF ~IsHttpUrl(add_bookmark.url)
              THEN [seen EXCEPT !.error_message =
                                    <<"URL must start with http:// or https://">>]
              ELSE [seen EXCEPT !.is_loading = TRUE,
                                !.error_message = <<>>,
                                !.commands = Append(@, add_bookmark.url)]
    /\ UNCHANGED <<renderer, login, app>>

\* AddBookmarkInput::Cancel: the Cancel button, or the dialog is closed.  The
\* App drops the dialog on its output, and its commands with it.
AddBookmarkCancel ==
    /\ ~add_bookmark.closed
    /\ add_bookmark' = [add_bookmark EXCEPT !.closed = TRUE,
                                            !.output = <<"Cancelled">>,
                                            !.commands = <<>>]
    /\ UNCHANGED <<renderer, login, app>>

\* AddBookmarkCommandOutput::AddSuccess, the output of command k: the output
\* carries the URL of the entry as it is now.
AddSuccess(k) ==
    /\ ~add_bookmark.closed
    /\ k \in DOMAIN add_bookmark.commands
    /\ add_bookmark' = [add_bookmark EXCEPT
                            !.is_loading = FALSE, !.closed = TRUE,
                            !.output = <<"BookmarkAdded", add_bookmark.url>>,
                            !.commands = <<>>, !.answered = TRUE]
    /\ UNCHANGED <<renderer, login, app>>

\* AddBookmarkCommandOutput::AddFailed(error), the output of command k
AddFailed(k, error) ==
    /\ ~add_bookmark.closed
    /\ k \in DOMAIN add_bookmark.commands
    /\ add_bookmark' = [add_bookmark EXCEPT
                            !.is_loading = FALSE, !.error_message = <<error>>,
                            !.commands = RemoveAt(@, k), !.answered = TRUE]
    /\ UNCHANGED <<renderer, login, app>>

NextAddBookmark ==
    \/ \E url \in Urls : SetUrl(url)
    \/ AddBookmarkSubmit
    \/ AddBookmarkCancel
    \/ \E k \in 1..MaxCommands : AddSuccess(k)
    \/ \E k \in 1..MaxCommands, error \in AddErrors : AddFailed(k, error)

(***************************************************************************)
(* The article list of the App and its search (src/src/app.rs).  An        *)
(* article is [item_id, title].  The letters of a title or a query are     *)
(* Latin ones and the Greek O and sigma, the latter as SIGMA (capital),    *)
(* sigma (small) and final_sigma (small, at the end of a word).            *)
(***************************************************************************)
AppInit ==
    [tokens |-> FALSE, loading |-> FALSE,
     search_mode |-> FALSE, search_query |-> <<>>, all_articles |-> <<>>,
     articles |-> <<>>,
     article_html |-> <<>>, article_title |-> <<>>, article_uri |-> <<>>,
     article_item_id |-> <<>>,
     add_bookmark_dialog |-> FALSE,
     commands |-> <<>>, inbox |-> 0, cache |-> <<>>,
     emitted |-> [SetTitle |-> <<>>, SetContent |-> <<>>],
     added |-> <<>>]

Uppercase == {"R", "U", "O", "SIGMA"}

Lowercase == {"r", "u", "o", "sigma", "final_sigma"}

\* char::is_cased, on the letters above
Cased(c) == c \in Uppercase \cup Lowercase

\* conversions::to_lower(c)
to_lower(c) ==
    CASE c = "R" -> "r" [] c = "U" -> "u" [] c = "O" -> "o"
      [] c = "SIGMA" -> "sigma"
      [] OTHER -> c

\* map_uppercase_sigma: the capital sigma at index i of from becomes the
\* final one when a cased letter comes before it and none after it.
map_uppercase_sigma(from, i) ==
    LET is_word_final == /\ i > 1 /\ Cased(from[i - 1])
                         /\ ~(i < Len(from) /\ Cased(from[i + 1]))
    IN  IF is_word_final THEN "final_sigma" ELSE "sigma"

\* str::to_lowercase
to_lowercase(chars) ==
    [i \in DOMAIN chars |-> IF chars[i] = "SIGMA" THEN map_uppercase_sigma(chars, i)
                            ELSE to_lower(chars[i])]

\* str::contains(pattern)
contains(chars, pattern) ==
    \E k \in 0..(Len(chars) - Len(pattern)) :
        SubSeq(chars, k + 1, k + Len(pattern)) = pattern

RECURSIVE Filter(_, _)
\* iter().filter(...).collect()
Filter(rest, query_lower) ==
    IF rest = <<>> THEN <<>>
    ELSE (IF contains(to_lowercase(Head(rest).title), query_lower)
          THEN <<Head(rest)>> ELSE <<>>) \o Filter(Tail(rest), query_lower)

\* App::filter_articles
filter_articles(search_query, all_articles) ==
    IF search_query = <<>> THEN all_articles
    ELSE Filter(all_articles, to_lowercase(search_query))

\* App::rebuild_article_list
rebuild_article_list(model) ==
    [model EXCEPT !.articles = filter_articles(model.search_query, model.all_articles)]

Article(item_id, title) == [item_id |-> item_id, title |-> title]

Catalog ==
    { Article(1, <<"R", "u">>),
      Article(2, <<"u", "r">>),
      Article(3, <<"u", " ", "R", "U">>),
      Article(4, <<"O", "SIGMA">>),
      Article(5, <<"O", "SIGMA", "U">>) }

Queries ==
    { <<>>, <<"r", "u">>, <<"R", "U">>, <<"u">>, <<"x">>,
      <<"O", "SIGMA">>, <<"sigma">> }

\* What a refresh can deliver: up to MaxArticles articles, no one twice.
Entries ==
    {e \in UNION {[1..n -> Catalog] : n \in 0..MaxArticles} :
        \A i, j \in DOMAIN e : i # j => e[i].item_id # e[j].item_id}

\* The future handed to sender.oneshot_command: what it asks of the network
\* and for what.  It delivers its output when the network has answered.
Command(kind, arg) == [kind |-> kind, arg |-> arg]

\* sender.oneshot_command(...)
oneshot_command(model, command) == [model EXCEPT !.commands = Append(@, command)]

\* The output of command k has been handed to update_cmd.
Delivered(model, k) == [model EXCEPT !.commands = RemoveAt(@, k)]

\* sender.input(AppMsg::RefreshArticles): the message waits in the queue of
\* the component.
input_RefreshArticles(model) == [model EXCEPT !.inbox = @ + 1]

\* What get_html and Readability::extract make of the page at uri.
Scraped(uri) == [html_of |-> uri]

\* AppMsg::LoginCompleted(tokens, username), forwarded from the login dialog
LoginCompleted ==
    /\ app.inbox < MaxCommands
    /\ app' = input_RefreshArticles([app EXCEPT !.tokens = TRUE])
    /\ UNCHANGED <<renderer, login, add_bookmark>>

\* AppMsg::Logout
Logout ==
    /\ app' = [app EXCEPT !.tokens = FALSE, !.cache = <<>>, !.articles = <<>>,
                          !.article_html = <<>>, !.article_uri = <<>>,
                          !.article_item_id = <<>>, !.all_articles = <<>>,
                          !.search_query = <<>>, !.search_mode = FALSE]
    /\ UNCHANGED <<renderer, login, add_bookmark>>

\* AppMsg::RefreshArticles, from the refresh button (queued = FALSE) or from
\* the queue of the component (queued = TRUE)
RefreshArticles(queued) ==
    /\ queued => app.inbox > 0
    /\ app.tokens => Len(app.commands) < MaxCommands
    /\ app' = LET taken == IF queued THEN [app EXCEPT !.inbox = @ - 1] ELSE app
              IN  IF app.tokens
                  THEN oneshot_command([taken EXCEPT !.loading = TRUE],
                                       Command("get_bookmarks", <<>>))
                  ELSE taken
    /\ UNCHANGED <<renderer, login, add_bookmark>>

\* AppMsg::ArticleSelected(title, uri, item_id, description, time), the output
\* of a row of the list shown.  The uri of an article is told by its item_id.
ArticleSelected(article) ==
    /\ article \in Range(app.articles)
    /\ Len(app.commands) < MaxCommands
    /\ app' = oneshot_command(
                  [app EXCEPT !.article_title = <<article.title>>,
                              !.article_uri = <<article.item_id>>,
                              !.article_item_id = <<article.item_id>>,
                              !.emitted.SetTitle = <<article.title>>],
                  Command("get_html", article.item_id))
    /\ UNCHANGED <<renderer, login, add_bookmark>>

\* AppMsg::ArchiveArticle
ArchiveArticle ==
    /\ app.tokens /\ app.article_item_id # <<>> => Len(app.commands) < MaxCommands
    /\ app' = IF app.tokens /\ app.article_item_id # <<>>
              THEN oneshot_command(app, Command("archive_bookmark",
                                                app.article_item_id[1]))
              ELSE app
    /\ UNCHANGED <<renderer, login, add_bookmark>>

\* AppMsg::ToggleSearchMode
ToggleSearchMode ==
    /\ app' = IF app.search_mode
              THEN rebuild_article_list([app EXCEPT !.search_mode = FALSE,
                                                    !.search_query = <<>>])
              ELSE [app EXCEPT !.search_mode = TRUE]
    /\ UNCHANGED <<renderer, login, add_bookmark>>

\* AppMsg::UpdateSearchQuery(query)
UpdateSearchQuery(query) ==
    /\ app' = rebuild_article_list([app EXCEPT !.search_query = query])
    /\ UNCHANGED <<renderer, login, add_bookmark>>

\* AppMsg::ClearSearch
ClearSearch ==
    /\ app' = rebuild_article_list([app EXCEPT !.search_mode = FALSE,
                                               !.search_query = <<>>])
    /\ UNCHANGED <<renderer, login, add_bookmark>>

\* CommandMsg::RefreshedArticles(entries), the output of command k: the
\* bookmarks of the service, or vec![] when get_bookmarks failed.
RefreshedArticles(k, entries) ==
    /\ k \in DOMAIN app.commands
    /\ app.commands[k].kind = "get_bookmarks"
    /\ app' = rebuild_article_list([Delivered(app, k) EXCEPT
                                        !.loading = FALSE,
                                        !.all_articles = entries,
                                        !.cache = <<entries>>])
    /\ UNCHANGED <<renderer, login, add_bookmark>>

\* CommandMsg::ScrapedArticle(html), the output of command k
ScrapedArticle(k) ==
    /\ k \in DOMAIN app.commands
    /\ app.commands[k].kind = "get_html"
    /\ app' = LET scraped == Scraped(app.commands[k].arg)
              IN  [Delivered(app, k) EXCEPT !.article_html = <<scraped>>,
                                           !.emitted.SetContent = <<scraped>>]
    /\ UNCHANGED <<renderer, login, add_bookmark>>

\* CommandMsg::ArticleArchived(item_id), the output of command k
ArticleArchived(k) ==
    /\ k \in DOMAIN app.commands
    /\ app.commands[k].kind = "archive_bookmark"
    /\ app.inbox < MaxCommands
    /\ app' = LET item_id == app.commands[k].arg
              IN  input_RefreshArticles(
                      [Delivered(app, k) EXCEPT
                          !.all_articles = SelectSeq(@, LAMBDA a : a.item_id # item_id),
                          !.article_html = <<>>, !.article_title = <<>>,
                          !.article_uri = <<>>, !.article_item_id = <<>>])
    /\ UNCHANGED <<renderer, login, add_bookmark>>

\* AppMsg::ShowAddBookmarkDialog: a new dialog is launched with the tokens
\* and takes the place of the one held.  added starts anew: the add-bookmark
\* requests the App itself has sent since the dialog was launched.
ShowAddBookmarkDialog ==
    /\ app' = IF app.tokens
              THEN [app EXCEPT !.add_bookmark_dialog = TRUE, !.added = <<>>]
              ELSE app
    /\ add_bookmark' = IF app.tokens THEN AddBookmarkInit ELSE add_bookmark
    /\ UNCHANGED <<renderer, login>>

\* AppMsg::AddBookmarkCompleted(url), forwarded from the output
\* BookmarkAdded(url) of the dialog held
AddBookmarkCompleted(url) ==
    /\ app.add_bookmark_dialog
    /\ add_bookmark.output = <<"BookmarkAdded", url>>
    /\ app.tokens => Len(app.commands) < MaxCommands
    /\ app' = LET sent == IF app.tokens
                          THEN oneshot_command([app EXCEPT !.added = Append(@, url)],
                                               Command("add_bookmark", url))
                          ELSE app
              IN  [sent EXCEPT !.add_bookmark_dialog = FALSE]
    /\ UNCHANGED <<renderer, login, add_bookmark>>

\* AppMsg::AddBookmarkCancelled, forwarded from the output Cancelled
AddBookmarkCancelled ==
    /\ app.add_bookmark_dialog
    /\ add_bookmark.output = <<"Cancelled">>
    /\ app' = [app EXCEPT !.add_bookmark_dialog = FALSE]
    /\ UNCHANGED <<renderer, login, add_bookmark>>

\* CommandMsg::BookmarkAdded, the output of command k: a toast, and the list
\* is refreshed.
BookmarkAdded(k) ==
    /\ k \in DOMAIN app.commands
    /\ app.commands[k].kind = "add_bookmark"
    /\ app.inbox < MaxCommands
    /\ app' = input_RefreshArticles(Delivered(app, k))
    /\ UNCHANGED <<renderer, login, add_bookmark>>

\* CommandMsg::Error(error), the output of command k: a toast.
CommandError(k) ==
    /\ k \in DOMAIN app.commands
    /\ app.commands[k].kind = "add_bookmark"
    /\ app' = Delivered(app, k)
    /\ UNCHANGED <<renderer, login, add_bookmark>>

NextSearch ==
    \/ LoginCompleted
    \/ \E queued \in BOOLEAN : RefreshArticles(queued)
    \/ \E k \in 1..MaxCommands, entries \in Entries : RefreshedArticles(k, entries)
    \/ ToggleSearchMode
    \/ \E query \in Queries : UpdateSearchQuery(query)
    \/ ClearSearch

(***************************************************************************)
(* The state machine: the SetContent handler, the user's scrolling and     *)
(* clicks, and the steps of each image task.                               *)
(***************************************************************************)
Init ==
    /\ content_box = <<>>
    /\ vadjustment = 0
    /\ img = [c \in {} |-> 0]
    /\ tasks = <<>>
    /\ busy = 0
    /\ tiers = <<>>
    /\ html = <<>>
    /\ hist = <<>>
    /\ login = LoginInit
    /\ add_bookmark = AddBookmarkInit
    /\ app = AppInit

\* The containers a replaced content_box leaves behind stay only while a task
\* spawned for them holds their clone.
Captured == {tasks[t].container : t \in DOMAIN tasks}

\* A variant of SetContent: the tasks in flight are cancelled with the
\* document they belong to.
SetContentCancelling(document) ==
    /\ busy = 0
    /\ \E built \in {render_html(content_box, document, Len(hist) + 1)} :
        LET fresh  == {Len(hist) + i : i \in 1..Len(built.new)}
            keep   == (DOMAIN img \cap Captured) \cup fresh
        IN  /\ Len(hist) + Len(built.new) <= MaxContainers
            /\ content_box' = built.box
            /\ img' = [c \in keep |-> IF c \in DOMAIN img THEN img[c]
                                      ELSE built.new[c - Len(hist)]]
            /\ tiers' = built.tiers
            /\ hist' = hist \o [i \in 1..Len(built.new) |-> <<"NotRequested">>]
    /\ vadjustment' = 0
    /\ html' = <<document>>
    /\ tasks' = [t \in DOMAIN tasks |->
                    IF tasks[t].pc = "done" THEN tasks[t]
                    ELSE [tasks[t] EXCEPT !.pc = "cancelled"]]
    /\ UNCHANGED <<busy, components>>

\* ArticleRendererInput::SetContent(html): render_html, then scroll to the top.
SetContent(document) ==
    /\ busy = 0
    /\ \E built \in {render_html(content_box, document, Len(hist) + 1)} :
        LET fresh  == {Len(hist) + i : i \in 1..Len(built.new)}
            keep   == (DOMAIN img \cap Captured) \cup fresh
        IN  /\ Len(hist) + Len(built.new) <= MaxContainers
            /\ content_box' = built.box
            /\ img' = [c \in keep |-> IF c \in DOMAIN img THEN img[c]
                                      ELSE built.new[c - Len(hist)]]
            /\ tiers' = built.tiers
            /\ hist' = hist \o [i \in 1..Len(built.new) |-> <<"NotRequested">>]
    /\ vadjustment' = 0
    /\ html' = <<document>>
    /\ UNCHANGED <<tasks, busy, components>>

\* vadjustment, as far as SetContent is concerned: at the top (0.0) or not.
ScrollPositions == {0, 1}

\* The user scrolls the article.
Scroll(value) ==
    /\ busy = 0
    /\ value # vadjustment
    /\ vadjustment' = value
    /\ UNCHANGED <<content_box, img, tasks, busy, tiers, html, hist, components>>

\* The future the clicked handler hands to spawn_local.
NewTask(c) == [container |-> c, pc |-> "spawned", result |-> NoResult]

\* A variant of RequestLoad: the click is accepted whatever the container
\* shows, so a loaded or failed image can be requested again.
RequestLoadAgain(c) ==
    LET newimg   == [img EXCEPT ![c].button =
                        [sensitive |-> FALSE, label |-> "Loading..."]]
        newtasks == Append(tasks, NewTask(c))
    IN  /\ busy = 0
        /\ c \in Displayed
        /\ img[c].url # <<>>
        /\ img' = newimg
        /\ tasks' = newtasks
        /\ hist' = Observe(newimg, newtasks)
        /\ UNCHANGED <<content_box, vadjustment, busy, tiers, html, components>>

\* A variant of RequestLoad: the handler changes the label of the button but
\* leaves it sensitive.
RequestLoadSensitive(c) ==
    LET newimg   == [img EXCEPT ![c].button =
                        [sensitive |-> TRUE, label |-> "Loading..."]]
        newtasks == Append(tasks, NewTask(c))
    IN  /\ busy = 0
        /\ c \in Displayed
        /\ "button" \in Range(img[c].kids)
        /\ img[c].button.sensitive
        /\ Len(tasks) < MaxContainers
        /\ img' = newimg
        /\ tasks' = newtasks
        /\ hist' = Observe(newimg, newtasks)
        /\ UNCHANGED <<content_box, vadjustment, busy, tiers, html, components>>

\* button.connect_clicked: the user clicks the Load Image button of a shown
\* image.
RequestLoad(c) ==
    LET newimg   == [img EXCEPT ![c].button =
                        [sensitive |-> FALSE, label |-> "Loading..."]]
        newtasks == Append(tasks, NewTask(c))
    IN  /\ busy = 0
        /\ c \in Displayed
        /\ "button" \in Range(img[c].kids)
        /\ img[c].button.sensitive
        /\ img' = newimg
        /\ tasks' = newtasks
        /\ hist' = Observe(newimg, newtasks)
        /\ UNCHANGED <<content_box, vadjustment, busy, tiers, html, components>>

\* A click on a button that is not sensitive: GTK delivers no clicked signal.
ClickInsensitive(c) ==
    /\ busy = 0
    /\ c \in Displayed
    /\ "button" \in Range(img[c].kids)
    /\ ~img[c].button.sensitive
    /\ UNCHANGED <<content_box, vadjustment, img, tasks, busy, tiers, html, hist, components>>

\* The main context polls the new future, which starts the blocking download.
TaskPoll(t) ==
    /\ busy = 0
    /\ tasks[t].pc = "spawned"
    /\ tasks' = [tasks EXCEPT ![t].pc = "fetching"]
    /\ UNCHANGED <<content_box, vadjustment, img, busy, tiers, html, hist, components>>

\* A variant of FetchDone: the worker thread shows the error icon itself when
\* the download fails.
FetchDoneMutating(t, result) ==
    LET c        == tasks[t].container
        failed   == result.kind # "ok"
        newimg   == IF failed
                    THEN [img EXCEPT ![c].kids = Append(RemoveChild(@, "button"),
                                                        "image-missing")]
                    ELSE img
        newtasks == [tasks EXCEPT ![t].pc = IF failed THEN "done" ELSE "ready",
                                  ![t].result = result]
    IN  /\ tasks[t].pc = "fetching"
        /\ img' = newimg
        /\ tasks' = newtasks
        /\ hist' = Observe(newimg, newtasks)
        /\ UNCHANGED <<content_box, vadjustment, busy, tiers, html, components>>

\* download_image_bytes returns on its worker thread (or the thread is lost).
FetchDone(t, result) ==
    LET newtasks == [tasks EXCEPT ![t].pc = "ready", ![t].result = result]
    IN  /\ tasks[t].pc = "fetching"
        /\ tasks' = newtasks
        /\ hist' = Observe(img, newtasks)
        /\ UNCHANGED <<content_box, vadjustment, img, busy, tiers, html, components>>

\* A variant of container_clone2: every continuation works on the container
\* created first among those still held.
container_shared(t) == CHOOSE c \in DOMAIN img : \A d \in DOMAIN img : c <= d

\* A variant of container_clone2: the continuation looks its container up by
\* the url of the image among the containers shown, and falls back on its own.
container_by_url(t) ==
    LET own  == tasks[t].container
        same == {c \in Displayed : img[c].url = img[own].url}
    IN  IF same = {} THEN own ELSE CHOOSE c \in same : \A d \in same : c <= d

\* The container the continuation of task t works on (container_clone2).
container_clone2(t) == tasks[t].container

\* A variant of TaskResume: a failed download puts the Load Image button back
\* for another try.
TaskResumeRetrying(t) ==
    LET c        == container_clone2(t)
        removed  == [img EXCEPT ![c].kids = RemoveChild(@, "button")]
        ok       == tasks[t].result.kind = "ok"
        newimg   == IF ok THEN removed
                    ELSE [img EXCEPT ![c].button = LoadButton]
        newtasks == [tasks EXCEPT ![t].pc = IF ok THEN "decoding" ELSE "done"]
    IN  /\ busy = 0
        /\ tasks[t].pc = "ready"
        /\ img' = newimg
        /\ tasks' = newtasks
        /\ busy' = IF ok THEN t ELSE 0
        /\ hist' = Observe(newimg, newtasks)
        /\ UNCHANGED <<content_box, vadjustment, tiers, html, components>>

\* A variant of TaskResume: bytes_to_texture is run on whatever the download
\* returned.
TaskResumeAlwaysDecoding(t) ==
    LET c        == container_clone2(t)
        newimg   == [img EXCEPT ![c].kids = RemoveChild(@, "button")]
        newtasks == [tasks EXCEPT ![t].pc = "decoding"]
    IN  /\ busy = 0
        /\ tasks[t].pc = "ready"
        /\ img' = newimg
        /\ tasks' = newtasks
        /\ busy' = t
        /\ hist' = Observe(newimg, newtasks)
        /\ UNCHANGED <<content_box, vadjustment, tiers, html, components>>

\* A variant of TaskResume: when the blocking task itself is lost (Err(_))
\* the continuation ends at once, leaving the container as it was.
TaskResumeSilent(t) ==
    LET c        == container_clone2(t)
        removed  == [img EXCEPT ![c].kids = RemoveChild(@, "button")]
        ok       == tasks[t].result.kind = "ok"
        newimg   == CASE ok -> removed
                      [] tasks[t].result.kind = "join_error" -> img
                      [] OTHER -> [removed EXCEPT ![c].kids = Append(@, "image-missing")]
        newtasks == [tasks EXCEPT ![t].pc = IF ok THEN "decoding" ELSE "done"]
    IN  /\ busy = 0
        /\ tasks[t].pc = "ready"
        /\ img' = newimg
        /\ tasks' = newtasks
        /\ busy' = IF ok THEN t ELSE 0
        /\ hist' = Observe(newimg, newtasks)
        /\ UNCHANGED <<content_box, vadjustment, tiers, html, components>>

\* The continuation after the await: the button is removed; a failed download
\* shows the error icon, a successful one goes on to bytes_to_texture.
TaskResume(t) ==
    LET c        == container_clone2(t)
        removed  == [img EXCEPT ![c].kids = RemoveChild(@, "button")]
        ok       == tasks[t].result.kind = "ok"
        newimg   == IF ok THEN removed
                    ELSE [removed EXCEPT ![c].kids = Append(@, "image-missing")]
        newtasks == [tasks EXCEPT ![t].pc = IF ok THEN "decoding" ELSE "done"]
    IN  /\ busy = 0
        /\ tasks[t].pc = "ready"
        /\ img' = newimg
        /\ tasks' = newtasks
        /\ busy' = IF ok THEN t ELSE 0
        /\ hist' = Observe(newimg, newtasks)
        /\ UNCHANGED <<content_box, vadjustment, tiers, html, components>>

\* A variant of DecodeDone: bytes that do not decode put a label of their own
\* at the end of the content instead of the error icon in the container.
DecodeDoneLabelling(t) ==
    LET c        == container_clone2(t)
        bytes    == tasks[t].result.bytes
        decoded  == bytes_to_texture(bytes)
        newimg   == [img EXCEPT
                        ![c].kids = IF decoded THEN Append(@, "picture")
                                    ELSE Append(@, "image-missing"),
                        ![c].size_request =
                            IF decoded
                            THEN <<-1, natural_height(Texture(bytes),
                                                      img[c].allocated_width)>>
                            ELSE @]
        newtasks == [tasks EXCEPT ![t].pc = "done"]
    IN  /\ busy = t
        /\ tasks[t].pc = "decoding"
        /\ img' = newimg
        /\ tasks' = newtasks
        /\ busy' = 0
        /\ hist' = Observe(newimg, newtasks)
        /\ content_box' = IF decoded THEN content_box
                          ELSE Append(content_box,
                                      [w |-> "label", css |-> "",
                                       markup |-> <<"Failed to load image">>,
                                       use_markup |-> FALSE])
        /\ UNCHANGED <<vadjustment, tiers, html, components>>

\* bytes_to_texture returns, still within the continuation: the picture,
\* with the height requested for it, or the error icon is appended.
DecodeDone(t) ==
    LET c        == container_clone2(t)
        bytes    == tasks[t].result.bytes
        child    == IF bytes_to_texture(bytes) THEN "picture" ELSE "image-missing"
        newimg   == [img EXCEPT
                        ![c].kids = Append(@, child),
                        ![c].size_request =
                            IF bytes_to_texture(bytes)
                            THEN <<-1, natural_height(Texture(bytes),
                                                      img[c].allocated_width)>>
                            ELSE @]
        newtasks == [tasks EXCEPT ![t].pc = "done"]
    IN  /\ busy = t
        /\ tasks[t].pc = "decoding"
        /\ img' = newimg
        /\ tasks' = newtasks
        /\ busy' = 0
        /\ hist' = Observe(newimg, newtasks)
        /\ UNCHANGED <<content_box, vadjustment, tiers, html, components>>

Next ==
    \/ \E document \in Articles : SetContent(document)
    \/ \E value \in ScrollPositions : Scroll(value)
    \/ \E c \in DOMAIN img : RequestLoad(c)
    \/ \E c \in DOMAIN img : ClickInsensitive(c)
    \/ \E t \in DOMAIN tasks : TaskPoll(t)
    \/ \E t \in DOMAIN tasks, result \in FetchResults : FetchDone(t, result)
    \/ \E t \in DOMAIN tasks : TaskResume(t)
    \/ \E t \in DOMAIN tasks : DecodeDone(t)

Spec == Init /\ [][Next]_vars

SpecLogin == Init /\ [][NextLogin]_vars

SpecAddBookmark == Init /\ [][NextAddBookmark]_vars

SpecSearch == Init /\ [][NextSearch]_vars

\* Any step of task t: the first poll, the return of the download, the
\* continuation, the end of the decode.
TaskStep(t) ==
    /\ t \in DOMAIN tasks
    /\ \/ TaskPoll(t)
       \/ \E result \in FetchResults : FetchDone(t, result)
       \/ TaskResume(t)
       \/ DecodeDone(t)

(***************************************************************************)
(* The reading specification: the user logs in, refreshes the list and     *)
(* selects articles of the list shown; the pages selected are scraped and  *)
(* the commands deliver their outputs in any order.                        *)
(***************************************************************************)
\* What the service holds in these runs: the first two articles of the
\* catalog.
Deliveries == {e \in Entries : \A i \in DOMAIN e : e[i].item_id <= 2}

NextSelect ==
    \/ LoginCompleted
    \/ \E queued \in BOOLEAN : RefreshArticles(queued)
    \/ \E k \in 1..MaxCommands, entries \in Deliveries : RefreshedArticles(k, entries)
    \/ \E article \in Catalog : ArticleSelected(article)
    \/ \E k \in 1..MaxCommands : ScrapedArticle(k)

SpecSelect == Init /\ [][NextSelect]_vars

(***************************************************************************)
(* The list specification: logging in and out, refreshing, searching,      *)
(* selecting and archiving, with the commands delivering their outputs in  *)
(* any order, also after a Logout.                                         *)
(***************************************************************************)
ListQueries == {<<>>, <<"u", "r">>}

NextList ==
    \/ LoginCompleted
    \/ Logout
    \/ \E queued \in BOOLEAN : RefreshArticles(queued)
    \/ \E k \in 1..MaxCommands, entries \in Deliveries : RefreshedArticles(k, entries)
    \/ \E article \in Catalog : ArticleSelected(article)
    \/ \E k \in 1..MaxCommands : ScrapedArticle(k)
    \/ ArchiveArticle
    \/ \E k \in 1..MaxCommands : ArticleArchived(k)
    \/ ToggleSearchMode
    \/ \E query \in ListQueries : UpdateSearchQuery(query)
    \/ ClearSearch

SpecList == Init /\ [][NextList]_vars

(***************************************************************************)
(* The bookmark specification: the App launches the add-bookmark dialog,   *)
(* the dialog works as long as the App holds it, and the App handles what  *)
(* the dialog puts out.                                                    *)
(***************************************************************************)
BookmarkUrls ==
    { <<>>, <<"a">>,
      <<"h", "t", "t", "p", ":", "/", "/", "a">>,
      <<"h", "t", "t", "p", "s", ":", "/", "/", "a">> }

NextBookmark ==
    \/ LoginCompleted
    \/ Logout
    \/ \E queued \in BOOLEAN : RefreshArticles(queued)
    \/ \E k \in 1..MaxCommands : RefreshedArticles(k, <<>>)
    \/ ShowAddBookmarkDialog
    \/ \E url \in BookmarkUrls : app.add_bookmark_dialog /\ SetUrl(url)
    \/ app.add_bookmark_dialog /\ AddBookmarkSubmit
    \/ app.add_bookmark_dialog /\ AddBookmarkCancel
    \/ \E k \in 1..MaxCommands : app.add_bookmark_dialog /\ AddSuccess(k)
    \/ \E k \in 1..MaxCommands, error \in AddErrors :
          app.add_bookmark_dialog /\ AddFailed(k, error)
    \/ \E url \in BookmarkUrls : AddBookmarkCompleted(url)
    \/ AddBookmarkCancelled
    \/ \E k \in 1..MaxCommands : BookmarkAdded(k)
    \/ \E k \in 1..MaxCommands : CommandError(k)

SpecBookmark == Init /\ [][NextBookmark]_vars

(***************************************************************************)
(* The image specification with its scheduling.  The main context polls    *)
(* every future it holds and runs every continuation that is ready, and    *)
(* download_image_bytes returns within its timeout of 30 seconds: every    *)
(* step of a task that stays possible is taken.  Nothing is assumed of the *)
(* user, who may click, or replace the content, or do neither.             *)
(***************************************************************************)
NextLive ==
    \/ \E document \in Articles : SetContent(document)
    \/ \E c \in DOMAIN img : RequestLoad(c)
    \/ \E t \in DOMAIN tasks : TaskPoll(t)
    \/ \E t \in DOMAIN tasks, result \in FetchResults : FetchDone(t, result)
    \/ \E t \in DOMAIN tasks : TaskResume(t)
    \/ \E t \in DOMAIN tasks : DecodeDone(t)

SpecLive ==
    /\ Init
    /\ [][NextLive]_vars
    /\ \A t \in 1..MaxContainers : WF_vars(TaskStep(t))

(***************************************************************************)
(* The build specification: SetContent over generated articles, every      *)
(* body of up to MaxBodyKids children drawn from BodyKids.                 *)
(***************************************************************************)
BodyKids ==
    { Para(<<"x">>),
      Image(<<"a">>),
      Elem("span", <<>>, <<TextNode(<<"y">>)>>),
      Elem("div", <<>>, <<Para(<<"x">>)>>),
      Elem("div", <<>>, <<Image(<<"a">>)>>),
      Elem("blockquote", <<>>, <<Para(<<"x">>)>>) }

RECURSIVE Forests(_)
Forests(n) ==
    IF n = 0 THEN {<<>>}
    ELSE LET shorter == Forests(n - 1)
         IN  shorter \cup {Append(f, k) : f \in {g \in shorter : Len(g) = n - 1},
                                          k \in BodyKids}

Trees == {Document(<<>>, f) : f \in Forests(MaxBodyKids)} \cup {FramesetDocument}

NextBuild ==
    \/ \E document \in Trees : SetContent(document)
    \/ \E value \in ScrollPositions : Scroll(value)

SpecBuild == Init /\ [][NextBuild]_vars

(***************************************************************************)
(* The classifier specification: SetContent over articles of one candidate *)
(* element of every tag, as a child of the body, of a div or of a          *)
(* blockquote.                                                             *)
(***************************************************************************)
CandidateTags == BlockTags \cup {"div", "span", "section", "li", "a"}

Candidate(tag) ==
    CASE tag = "img" -> Image(<<"a">>)
      [] tag \in {"ul", "ol"} ->
            Elem(tag, <<>>, <<Elem("li", <<>>, <<TextNode(<<"x">>)>>)>>)
      [] tag = "blockquote" -> Elem(tag, <<>>, <<Para(<<"x">>)>>)
      [] OTHER -> Elem(tag, <<>>, <<TextNode(<<"x">>)>>)

ClassifyTrees ==
    {Document(<<>>, <<Candidate(tag)>>) : tag \in CandidateTags}
        \cup {Document(<<>>, <<Elem(wrapper, <<>>, <<Candidate(tag)>>)>>) :
                  wrapper \in {"div", "blockquote"}, tag \in CandidateTags}

NextClassify ==
    \/ \E document \in ClassifyTrees : SetContent(document)
    \/ \E value \in ScrollPositions : Scroll(value)

SpecClassify == Init /\ [][NextClassify]_vars

(***************************************************************************)
(* The inline specification: SetContent over articles of one paragraph,    *)
(* whose children are a text node inside up to MaxInlineDepth inline       *)
(* elements, or a few siblings.  Adjacent text nodes and an anchor inside  *)
(* an anchor do not occur: the parser merges the first and closes the open *)
(* anchor before the second.                                               *)
(***************************************************************************)
Comment == [tag |-> "#comment", attrs |-> <<>>, text |-> <<>>, kids |-> <<>>]

InlineLeaves ==
    { TextNode(<<"x">>), TextNode(<<"&">>), TextNode(<<"<">>), TextNode(<<">">>),
      TextNode(<<"\"">>), TextNode(<<"&", "l", "t", ";">>) }

HrefValues == {<<"x">>, <<"&">>, <<"<">>, <<">">>, <<"\"">>}

InlineWrappers ==
    {[tag |-> t, attrs |-> <<>>] : t \in {"b", "strong", "i", "em", "code", "span", "a"}}
        \cup {[tag |-> "a", attrs |-> <<<<"href", h>>>>] : h \in HrefValues}

RECURSIVE Spine(_)
Spine(depth) ==
    IF depth = 0 THEN InlineLeaves
    ELSE LET below == Spine(depth - 1)
             nests == {<<w, n>> \in InlineWrappers \X below :
                          ~(w.tag = "a" /\ "a" \in {n.tag} \cup TagsUnder(n))}
         IN  below \cup {Elem(wn[1].tag, wn[1].attrs, <<wn[2]>>) : wn \in nests}

Siblings ==
    { TextNode(<<"x">>), TextNode(<<"<">>), Comment,
      Elem("b", <<>>, <<TextNode(<<"x">>)>>),
      Elem("i", <<>>, <<TextNode(<<"<">>)>>) }

SiblingForests ==
    {f \in UNION {[1..n -> Siblings] : n \in 2..3} :
        \A i \in 1..(Len(f) - 1) : ~(f[i].tag = "#text" /\ f[i + 1].tag = "#text")}

InlineForests ==
    {<<n>> : n \in Spine(MaxInlineDepth)}
        \cup SiblingForests
        \cup {<<Elem(w.tag, w.attrs, f)>> :
                  w \in InlineWrappers, f \in {g \in SiblingForests : Len(g) = 2}}

InlineTrees == {Document(<<>>, <<Elem("p", <<>>, f)>>) : f \in InlineForests}

\* A run of the inline specification shows one article, any number of times:
\* the formatter reads nothing but the element it is given.
Shows == IF html = <<>> THEN InlineTrees ELSE {html[1]}

NextInline ==
    \/ \E document \in Shows : SetContent(document)
    \/ \E value \in ScrollPositions : Scroll(value)

SpecInline == Init /\ [][NextInline]_vars

(***************************************************************************)
(* The nesting specification: SetContent over articles of one blockquote   *)
(* or one list.  A blockquote holds up to two children, one of which may   *)
(* be a blockquote again, down to MaxQuoteDepth; a list holds up to        *)
(* MaxListKids children.  A run shows one article.                         *)
(***************************************************************************)
QuoteKids ==
    { Para(<<"x">>),
      Image(<<"a">>),
      Elem("div", <<>>, <<Para(<<"x">>)>>),
      TextNode(<<"t">>) }

RECURSIVE Quotes(_)
Quotes(depth) ==
    IF depth = 0 THEN QuoteKids
    ELSE LET below   == Quotes(depth - 1)
             forests == {<<>>} \cup {<<n>> : n \in below}
                            \cup {<<k, n>> : k \in QuoteKids, n \in below}
                            \cup {<<n, k>> : n \in below, k \in QuoteKids}
             parsed  == {f \in forests :
                            \A i \in 1..(Len(f) - 1) :
                                ~(f[i].tag = "#text" /\ f[i + 1].tag = "#text")}
         IN  below \cup {Elem("blockquote", <<>>, f) : f \in parsed}

Item(kids) == Elem("li", <<>>, kids)

ListKids ==
    { Item(<<TextNode(<<"x">>)>>),
      Item(<<Elem("b", <<>>, <<TextNode(<<"x">>)>>), TextNode(<<"y">>)>>),
      Item(<<Para(<<"z">>)>>),
      Item(<<TextNode(<<"x">>), Elem("ul", <<>>, <<Item(<<TextNode(<<"y">>)>>)>>)>>),
      Item(<<Elem("blockquote", <<>>, <<Para(<<"z">>)>>)>>),
      Elem("div", <<>>, <<Item(<<TextNode(<<"y">>)>>)>>),
      TextNode(<<" ">>) }

ListForests ==
    {f \in UNION {[1..n -> ListKids] : n \in 0..MaxListKids} :
        \A i \in 1..(Len(f) - 1) : ~(f[i].tag = "#text" /\ f[i + 1].tag = "#text")}

LongList(tag) ==
    Elem(tag, <<>>, [i \in 1..LongListItems |-> Item(<<TextNode(<<"x">>)>>)])

Lists ==
    {Elem(tag, <<>>, f) : tag \in {"ul", "ol"}, f \in ListForests}
        \cup {LongList("ul"), LongList("ol")}

NestedTrees ==
    {Document(<<>>, <<n>>) : n \in Quotes(MaxQuoteDepth) \cup Lists}
        \cup {Document(<<>>, <<Elem("blockquote", <<>>, <<l>>)>>) : l \in Lists}

ShowsNested == IF html = <<>> THEN NestedTrees ELSE {html[1]}

NextNested ==
    \/ \E document \in ShowsNested : SetContent(document)
    \/ \E value \in ScrollPositions : Scroll(value)

SpecNested == Init /\ [][NextNested]_vars

(***************************************************************************)
(* The wrapped specification: SetContent over the articles of the nesting  *)
(* specification and over the same blockquotes and lists put inside a div  *)
(* of the body, where only the third selector finds them.                  *)
(***************************************************************************)
WrappedTrees ==
    {Document(<<>>, <<Elem("div", <<>>, <<n>>)>>) : n \in Quotes(MaxQuoteDepth) \cup Lists}

ShowsWrapped == IF html = <<>> THEN NestedTrees \cup WrappedTrees ELSE {html[1]}

NextWrapped ==
    \/ \E document \in ShowsWrapped : SetContent(document)
    \/ \E value \in ScrollPositions : Scroll(value)

SpecWrapped == Init /\ [][NextWrapped]_vars

(***************************************************************************)
(* The sizing specification: one article of one or two images is shown,    *)
(* the layout gives the image containers a width, at any time and any      *)
(* number of times, and the downloads return pictures of several sizes.    *)
(***************************************************************************)
SizedArticles ==
    { Document(<<>>, <<Image(<<"a">>)>>),
      Document(<<>>, <<Image(<<"a">>), Image(<<"b">>)>>) }

ShowsSized == IF html = <<>> THEN SizedArticles ELSE {}

LayoutWidths == {0, 3, 90, 5000}

SizedResults ==
    {[kind |-> "ok", bytes |-> b] : b \in Pictures \cup {"garbage"}}
        \cup {[kind |-> "transport_error", bytes |-> "none"]}

\* The layout allocates a width to a container on show, on a resize of the
\* window or of the pane.
Resize(c, width) ==
    /\ busy = 0
    /\ c \in Displayed
    /\ width # img[c].allocated_width
    /\ img' = [img EXCEPT ![c].allocated_width = width]
    /\ UNCHANGED <<content_box, vadjustment, tasks, busy, tiers, html, hist, components>>

NextSized ==
    \/ \E document \in ShowsSized : SetContent(document)
    \/ \E c \in DOMAIN img, width \in LayoutWidths : Resize(c, width)
    \/ \E c \in DOMAIN img : RequestLoad(c)
    \/ \E t \in DOMAIN tasks : TaskPoll(t)
    \/ \E t \in DOMAIN tasks, result \in SizedResults : FetchDone(t, result)
    \/ \E t \in DOMAIN tasks : TaskResume(t)
    \/ \E t \in DOMAIN tasks : DecodeDone(t)

SpecSized == Init /\ [][NextSized]_vars

(***************************************************************************)
(* What the properties speak of.                                           *)
(***************************************************************************)
\* The ImageState a container shows after the step.
ImageStateNext(c) == ImageStateOf(img'[c], IsDecoding(tasks', c))

\* The ImageState the outcome of a finished task calls for.
Outcome(result) ==
    IF result.kind = "ok" /\ bytes_to_texture(result.bytes)
    THEN "Succeeded" ELSE "Failed"

RECURSIVE Skeleton(_, _)
\* The blocks a sequence of widgets shows, each image by its url instead of
\* the identity of its container.
Skeleton(widgets, containers) ==
    IF widgets = <<>> THEN <<>>
    ELSE LET first == Head(widgets)
             block == CASE first.w = "image" ->
                             [w |-> "image", url |-> containers[first.id].url]
                        [] first.w = "blockquote" ->
                             [w |-> "blockquote",
                              kids |-> Skeleton(first.kids, containers)]
                        [] OTHER -> first
         IN  <<block>> \o Skeleton(Tail(widgets), containers)

\* What render_html shows for a document on an empty content_box.
BuildAlone(document) ==
    LET built == render_html(<<>>, document, 1)
    IN  Skeleton(built.box, built.new)

\* The child elements of the body elements below the html element, found by
\* walking the tree.
BodyChildren(document) ==
    LET top    == document.kids[1].kids
        bodies == SelectSeq(top, LAMBDA n : n.tag = "body")
    IN  IF bodies = <<>> THEN <<>> ELSE SelectSeq(bodies[1].kids, IsElement)

RootChildren(document) == SelectSeq(document.kids[1].kids, IsElement)

Classifies(elements) == \E i \in DOMAIN elements : elements[i].tag \in BlockTags

RECURSIVE HasBlockTag(_)
\* The subtree of node holds an element with a recognized block tag.
HasBlockTag(node) ==
    \/ node.tag \in BlockTags
    \/ \E i \in DOMAIN node.kids : HasBlockTag(node.kids[i])

\* The one child of the body of the article shown.
TopElement == html[1].kids[1].kids[2].kids[1]

\* The list of the article shown, the first block or the one child of the
\* blockquote that is the first block, with the element it was built from.
ListShown ==
    IF TopElement.tag = "blockquote"
    THEN [widget |-> content_box[1].kids[1], element |-> TopElement.kids[1]]
    ELSE [widget |-> content_box[1], element |-> TopElement]

ShowsList ==
    /\ html # <<>>
    /\ \/ TopElement.tag \in {"ul", "ol"}
       \/ /\ TopElement.tag = "blockquote"
          /\ Len(TopElement.kids) = 1
          /\ TopElement.kids[1].tag \in {"ul", "ol"}

\* The li elements of the list shown: every one below it, and its children.
ItemElements == ElementSelect(ListShown.element, "li")

DirectItems == SelectSeq(ListShown.element.kids, LAMBDA n : n.tag = "li")

IsBlockElement(node) == IsElement(node) /\ node.tag \in BlockTags

RECURSIVE Flattened(_)
\* Child by child and in order: the text of a block element, the markup of
\* any other child.
Flattened(kids) ==
    IF kids = <<>> THEN <<>>
    ELSE (IF IsBlockElement(Head(kids)) THEN TextOf(Head(kids))
          ELSE FormatChildren(<<Head(kids)>>)) \o Flattened(Tail(kids))

RECURSIVE NumberRead(_)
\* The number a sequence of decimal digits denotes.
NumberRead(chars) ==
    LET digits == <<"0", "1", "2", "3", "4", "5", "6", "7", "8", "9">>
        last   == chars[Len(chars)]
        value  == CHOOSE v \in 0..9 : digits[v + 1] = last
    IN  IF Len(chars) = 1 THEN value
        ELSE 10 * NumberRead(SubSeq(chars, 1, Len(chars) - 1)) + value

\* The Document shown: the children of content_box, the label that stands for
\* an empty Document apart.
Blocks == IF content_box = <<DebugLabel>> THEN <<>> ELSE content_box

(***************************************************************************)
(* The markup of a label as the toolkit reads it (use_markup(true)): text  *)
(* with the entities amp, lt, gt, quot and apos, and the elements b, i, tt *)
(* and a.  A span is a record [span, text, attr, kids]; attr is what an    *)
(* opening a tag holds after its name.                                     *)
(***************************************************************************)
Span(kind, attr, kids) == [span |-> kind, text |-> <<>>, attr |-> attr, kids |-> kids]

\* chars added to the end of spans: to its last span when that is text.
AddChars(spans, chars) ==
    IF chars = <<>> THEN spans
    ELSE IF spans # <<>> /\ spans[Len(spans)].span = "Text"
         THEN [spans EXCEPT ![Len(spans)].text = @ \o chars]
         ELSE Append(spans, [span |-> "Text", text |-> chars, attr |-> <<>>, kids |-> <<>>])

\* The first position from i on where s holds c, or 0.
Find(s, c, i) ==
    LET hits == {j \in i..Len(s) : s[j] = c}
    IN  IF hits = {} THEN 0 ELSE CHOOSE j \in hits : \A k \in hits : j <= k

\* The character an entity name stands for, or <<>>.
Entity(name) ==
    CASE name = <<"a", "m", "p">> -> <<"&">>
      [] name = <<"l", "t">> -> <<"<">>
      [] name = <<"g", "t">> -> <<">">>
      [] name = <<"q", "u", "o", "t">> -> <<"\"">>
      [] name = <<"a", "p", "o", "s">> -> <<"'">>
      [] OTHER -> <<>>

SpanOfTag(name) ==
    CASE name = <<"b">> -> "Bold"
      [] name = <<"i">> -> "Italic"
      [] name = <<"t", "t">> -> "Code"
      [] name = <<"a">> -> "Link"
      [] OTHER -> "Unknown"

NoParse == [ok |-> FALSE, spans |-> <<>>]

RECURSIVE Parse(_, _, _)
\* s read from position i on; stack holds the spans that are open, the
\* innermost last, below them the root.
Parse(s, i, stack) ==
    LET top == stack[Len(stack)]
        gt  == Find(s, ">", i)
        sc  == Find(s, ";", i)
        tag == SubSeq(s, i + 1, gt - 1)
        sp  == Find(tag, " ", 1)
        name == IF sp = 0 THEN tag ELSE SubSeq(tag, 1, sp - 1)
        attr == IF sp = 0 THEN <<>> ELSE SubSeq(tag, sp + 1, Len(tag))
    IN  IF i > Len(s)
        THEN IF Len(stack) = 1 THEN [ok |-> TRUE, spans |-> top.kids] ELSE NoParse
        ELSE CASE s[i] = "<" ->
                    IF gt = 0 \/ tag = <<>> THEN NoParse
                    ELSE IF tag[1] = "/"
                    THEN IF Len(stack) > 1 /\ SpanOfTag(Tail(tag)) = top.span
                         THEN Parse(s, gt + 1,
                                    [SubSeq(stack, 1, Len(stack) - 1)
                                        EXCEPT ![Len(stack) - 1].kids = Append(@, top)])
                         ELSE NoParse
                    ELSE IF SpanOfTag(name) = "Unknown" \/ (attr # <<>> /\ name # <<"a">>)
                         THEN NoParse
                         ELSE Parse(s, gt + 1, Append(stack, Span(SpanOfTag(name), attr, <<>>)))
               [] s[i] = "&" ->
                    IF sc = 0 \/ Entity(SubSeq(s, i + 1, sc - 1)) = <<>> THEN NoParse
                    ELSE Parse(s, sc + 1,
                               [stack EXCEPT ![Len(stack)].kids =
                                   AddChars(@, Entity(SubSeq(s, i + 1, sc - 1)))])
               [] OTHER ->
                    Parse(s, i + 1, [stack EXCEPT ![Len(stack)].kids = AddChars(@, <<s[i]>>)])

ParseMarkup(s) == Parse(s, 1, <<Span("Root", <<>>, <<>>)>>)

\* The text a piece of markup without elements stands for.
Unescape(s) ==
    LET parsed == ParseMarkup(s)
    IN  IF ~parsed.ok \/ \E i \in DOMAIN parsed.spans : parsed.spans[i].span # "Text"
        THEN [ok |-> FALSE, text |-> <<>>]
        ELSE [ok |-> TRUE,
              text |-> IF parsed.spans = <<>> THEN <<>> ELSE parsed.spans[1].text]

\* The href an opening a tag carries: its attr must be href="value", the
\* value running up to the first double quote and nothing following it.
HrefOf(attr) ==
    LET prefix == <<"h", "r", "e", "f", "=", "\"">>
        value  == SubSeq(attr, Len(prefix) + 1, Len(attr) - 1)
    IN  IF /\ Len(attr) > Len(prefix)
           /\ SubSeq(attr, 1, Len(prefix)) = prefix
           /\ attr[Len(attr)] = "\""
           /\ Find(value, "\"", 1) = 0
        THEN Unescape(value)
        ELSE [ok |-> FALSE, text |-> <<>>]

RECURSIVE Shape(_)
\* The spans without what their tags carry: order, nesting and text.
Shape(spans) ==
    [i \in DOMAIN spans |-> [spans[i] EXCEPT !.attr = <<>>, !.kids = Shape(@)]]

RECURSIVE TextsOf(_)
\* The text of the spans, in order.
TextsOf(spans) ==
    IF spans = <<>> THEN <<>>
    ELSE Head(spans).text \o TextsOf(Head(spans).kids) \o TextsOf(Tail(spans))

RECURSIVE MirrorKids(_, _)
\* The spans that mirror text nodes and recognized inline elements: a span
\* per element, in the order and nesting of the source, added to spans; an
\* anchor without href stands for its children, a code element holds its
\* text.
MirrorChild(child, spans) ==
    CASE child.tag = "#text" -> AddChars(spans, child.text)
      [] child.tag = "#comment" -> spans
      [] child.tag \in {"strong", "b"} ->
            Append(spans, Span("Bold", <<>>, MirrorKids(child.kids, <<>>)))
      [] child.tag \in {"em", "i"} ->
            Append(spans, Span("Italic", <<>>, MirrorKids(child.kids, <<>>)))
      [] child.tag = "code" ->
            Append(spans, Span("Code", <<>>, AddChars(<<>>, TextOf(child))))
      [] child.tag = "a" ->
            IF Attr(child, "href") # <<>>
            THEN Append(spans, Span("Link", <<>>, MirrorKids(child.kids, <<>>)))
            ELSE MirrorKids(child.kids, spans)

MirrorKids(kids, spans) ==
    IF kids = <<>> THEN spans
    ELSE MirrorKids(Tail(kids), MirrorChild(Head(kids), spans))

\* The paragraph of an article of the inline specification and its label.
Paragraph == html[1].kids[1].kids[2].kids[1]

Shown == content_box[1].markup

(***************************************************************************)
(* C1: the ImageStates observed of every image container start at          *)
(* NotRequested and move only along NotRequested -> Requested -> Decoding  *)
(* -> Succeeded or Failed, or Requested -> Failed; the last one observed   *)
(* is the one the container shows.                                         *)
(***************************************************************************)
C1_ImageStateForward ==
    LET Forward == {<<"NotRequested", "Requested">>, <<"Requested", "Decoding">>,
                    <<"Requested", "Failed">>, <<"Decoding", "Succeeded">>,
                    <<"Decoding", "Failed">>}
    IN  \A c \in DOMAIN hist :
          /\ hist[c][1] = "NotRequested"
          /\ \A i \in 1..(Len(hist[c]) - 1) : <<hist[c][i], hist[c][i + 1]>> \in Forward
          /\ c \in DOMAIN img => hist[c][Len(hist[c])] = ImageState(c)

C1_Witness ==
    /\ \E c \in DOMAIN hist :
         hist[c] = <<"NotRequested", "Requested", "Decoding", "Succeeded">>
    /\ \E c \in DOMAIN hist : hist[c] = <<"NotRequested", "Requested", "Failed">>

(***************************************************************************)
(* C2: once a container shows Succeeded or Failed, no step changes the     *)
(* container or its state, and no step spawns another task for it.         *)
(***************************************************************************)
C2_TerminalStays ==
    [][\A c \in DOMAIN img :
          ImageState(c) \in {"Succeeded", "Failed"} =>
            /\ c \in DOMAIN img'
            /\ img'[c] = img[c]
            /\ ImageStateNext(c) = ImageState(c)
            /\ {t \in DOMAIN tasks' : tasks'[t].container = c} = TasksOf(c)
            /\ \A t \in TasksOf(c) : tasks'[t] = tasks[t]]_vars

C2_Witness ==
    \E c \in Displayed, d \in DOMAIN img :
        /\ ImageState(c) \in {"Succeeded", "Failed"}
        /\ d # c
        /\ ImageState(d) = "Decoding"

(***************************************************************************)
(* C3: a build spawns no task and leaves every image it shows NotRequested *)
(* with no task of its own; a container leaves NotRequested only in the    *)
(* step that handles the click on its own button, which spawns its task.   *)
(***************************************************************************)
C3_BuildNeverFetches ==
    [][/\ content_box' # content_box =>
            /\ tasks' = tasks
            /\ \A c \in Range(ImagesOf(content_box')) :
                  /\ ImageStateNext(c) = "NotRequested"
                  /\ \A t \in DOMAIN tasks' : tasks'[t].container # c
       /\ \A c \in DOMAIN img' \ DOMAIN img : ImageStateNext(c) = "NotRequested"
       /\ \A c \in DOMAIN img \cap DOMAIN img' :
            ImageState(c) = "NotRequested" /\ ImageStateNext(c) # "NotRequested" =>
              /\ c \in Displayed
              /\ content_box' = content_box
              /\ ImageStateNext(c) = "Requested"
              /\ tasks' = Append(tasks, NewTask(c))]_vars

C3_Witness ==
    /\ \E c \in Displayed : ImageState(c) = "NotRequested" /\ img[c].url # <<>>
    /\ \E t \in DOMAIN tasks :
         tasks[t].pc = "fetching" /\ tasks[t].container \notin Displayed

(***************************************************************************)
(* C4: a task reaches the decode only with the bytes of its own successful *)
(* download; when the download fails the states observed of its image are  *)
(* exactly NotRequested, Requested, Failed.                                *)
(***************************************************************************)
C4_DecodeAfterFetch ==
    \A t \in DOMAIN tasks :
        /\ tasks[t].pc = "decoding" => tasks[t].result.kind = "ok"
        /\ "Decoding" \in Range(hist[tasks[t].container]) =>
              tasks[t].result.kind = "ok"
        /\ tasks[t].pc = "done" /\ tasks[t].result.kind # "ok" =>
              hist[tasks[t].container] = <<"NotRequested", "Requested", "Failed">>

C4_Witness ==
    \E t \in DOMAIN tasks :
        /\ tasks[t].pc = "done"
        /\ tasks[t].result.kind = "transport_error"
        /\ hist[tasks[t].container] = <<"NotRequested", "Requested", "Failed">>

(***************************************************************************)
(* C5: the state an image ends in is the outcome of its own download and   *)
(* decode, whatever the other tasks did and in whichever order they        *)
(* finished; an image whose task has not finished is not terminal.         *)
(***************************************************************************)
C5_TasksIndependent ==
    /\ \A t \in DOMAIN tasks :
         tasks[t].pc = "done" =>
            ImageState(tasks[t].container) = Outcome(tasks[t].result)
    /\ \A c \in DOMAIN img :
         ImageState(c) \in {"Succeeded", "Failed"} =>
            \E t \in TasksOf(c) : tasks[t].pc = "done"

C5_Witness ==
    \E t, u \in DOMAIN tasks :
        /\ t < u
        /\ {tasks[t].container, tasks[u].container} \subseteq Displayed
        /\ tasks[u].pc = "done" /\ tasks[u].result.kind # "ok"
        /\ tasks[t].pc = "decoding"
        /\ ImageState(tasks[u].container) = "Failed"

(***************************************************************************)
(* C6: the step in which a download returns on its worker thread changes   *)
(* no container and no widget; every step changes the state of at most one *)
(* image; and while a continuation is running on the main context only its *)
(* own image changes and no other handler of the main context runs.        *)
(***************************************************************************)
C6_SingleOwner ==
    [][LET changed == {c \in DOMAIN img \cap DOMAIN img' :
                          img'[c] # img[c] \/ ImageStateNext(c) # ImageState(c)}
       IN  /\ (\E t \in DOMAIN tasks :
                  tasks[t].pc = "fetching" /\ tasks'[t].pc # "fetching") =>
                 /\ img' = img
                 /\ content_box' = content_box
                 /\ changed = {}
           /\ Cardinality(changed) <= 1
           /\ busy # 0 =>
                 /\ changed \subseteq {tasks[busy].container}
                 /\ content_box' = content_box
                 /\ vadjustment' = vadjustment
                 /\ Len(tasks') = Len(tasks)
                 /\ \A t \in DOMAIN tasks :
                       tasks'[t].pc # tasks[t].pc =>
                          t = busy \/ tasks[t].pc = "fetching"]_vars

C6_Witness ==
    \E t, u \in DOMAIN tasks :
        /\ tasks[t].pc = "ready"
        /\ tasks[t].result.kind = "transport_error"
        /\ ImageState(tasks[t].container) = "Requested"
        /\ busy = u

(***************************************************************************)
(* C7: a step that replaces the content leaves every task, and the         *)
(* container each task works on, as they were; a task whose container is   *)
(* no longer shown keeps its container, can take its next step as soon as  *)
(* the main context is free, and once done has brought its container to    *)
(* the outcome of its own download and decode.                             *)
(***************************************************************************)
C7_DetachedTasksGoOn ==
    \A t \in DOMAIN tasks :
        tasks[t].container \notin Displayed =>
           /\ tasks[t].container \in DOMAIN img
           /\ tasks[t].pc # "done" =>
                 \/ ENABLED TaskStep(t)
                 \/ busy \notin {0, t} /\ ENABLED DecodeDone(busy)
           /\ tasks[t].pc = "done" =>
                 ImageState(tasks[t].container) = Outcome(tasks[t].result)

C7_ReplaceKeepsTasks ==
    []C7_DetachedTasksGoOn
      /\ [][content_box' # content_box =>
              /\ tasks' = tasks
              /\ \A t \in DOMAIN tasks :
                    /\ tasks[t].container \in DOMAIN img'
                    /\ img'[tasks[t].container] = img[tasks[t].container]]_vars

C7_Witness ==
    \E t \in DOMAIN tasks :
        /\ tasks[t].container \notin Displayed
        /\ tasks[t].pc = "decoding"
        /\ content_box # <<>>

(***************************************************************************)
(* C8: after SetContent the content shown is what the build of that        *)
(* document shows on an empty content_box, whatever was shown before.      *)
(***************************************************************************)
C8_ContentReplaced ==
    html # <<>> => Skeleton(content_box, img) = BuildAlone(html[1])

C8_Witness ==
    /\ html # <<>>
    /\ Len(ImagesOf(content_box)) > 0
    /\ Len(hist) > Len(ImagesOf(content_box))
    /\ Len(content_box) = 2

(***************************************************************************)
(* C9 as stated: a body with at least one child element makes its children *)
(* the only candidates, tiers 2 and 3 unused, also when none of them has a *)
(* recognized block tag.                                                   *)
(***************************************************************************)
C9_Original ==
    html # <<>> /\ BodyChildren(html[1]) # <<>> =>
        /\ tiers = <<1>>
        /\ TierSelect(html[1], 1) = BodyChildren(html[1])
        /\ Skeleton(content_box, img)
              = LET direct == AppendWidgets(BodyChildren(html[1]), 1)
                IN  Skeleton(direct.widgets, direct.new)

(***************************************************************************)
(* C9 amended: the candidates of tier 1 are the child elements of the body *)
(* in document order; if at least one of them has a recognized block tag,  *)
(* the content is built from them alone and tiers 2 and 3 are not used; if *)
(* the body has children and none has a recognized block tag, tiers 2 and  *)
(* 3 are both tried.                                                       *)
(***************************************************************************)
C9_BodyChildrenWin ==
    html # <<>> =>
        /\ TierSelect(html[1], 1) = BodyChildren(html[1])
        /\ Classifies(BodyChildren(html[1])) =>
              /\ tiers = <<1>>
              /\ Skeleton(content_box, img)
                    = LET direct == AppendWidgets(BodyChildren(html[1]), 1)
                      IN  Skeleton(direct.widgets, direct.new)
        /\ BodyChildren(html[1]) # <<>> /\ ~Classifies(BodyChildren(html[1])) =>
              tiers = <<1, 2, 3>>

C9_Witness ==
    /\ html # <<>>
    /\ Len(BodyChildren(html[1])) = 2
    /\ Classifies(BodyChildren(html[1]))
    /\ \E i \in 1..2 : BodyChildren(html[1])[i].tag \notin BlockTags
    /\ tiers = <<1>>
    /\ Len(content_box) = 1

(***************************************************************************)
(* C10 as stated: when the body has no children and the root has some, the *)
(* candidates are the children of the root and tier 3 is not used.         *)
(***************************************************************************)
C10_Original ==
    html # <<>> /\ BodyChildren(html[1]) = <<>> /\ RootChildren(html[1]) # <<>> =>
        tiers = <<1, 2>>

(***************************************************************************)
(* C10 amended: tier 2, the children of the root, is tried exactly when no *)
(* candidate of tier 1 has a recognized block tag, and always before tier  *)
(* 3; tier 3 is tried exactly when no candidate of tiers 1 and 2 has a     *)
(* recognized block tag, whether or not the root has children.             *)
(***************************************************************************)
C10_TierOrder ==
    html # <<>> =>
        /\ tiers \in {<<1>>, <<1, 2>>, <<1, 2, 3>>}
        /\ TierSelect(html[1], 2) = RootChildren(html[1])
        /\ 2 \in Range(tiers) <=> ~Classifies(BodyChildren(html[1]))
        /\ 3 \in Range(tiers) <=>
              ~Classifies(BodyChildren(html[1])) /\ ~Classifies(RootChildren(html[1]))

C10_Witness ==
    /\ html # <<>>
    /\ BodyChildren(html[1]) = <<>>
    /\ Len(RootChildren(html[1])) = 2
    /\ tiers = <<1, 2, 3>>

(***************************************************************************)
(* C11: whenever the tree handed to SetContent holds an element with a     *)
(* recognized block tag, at whatever depth, the Document shown is not      *)
(* empty: content_box holds at least one block and not the empty-state     *)
(* label.                                                                  *)
(***************************************************************************)
C11_BlockTagRenders ==
    html # <<>> /\ HasBlockTag(html[1]) =>
        /\ Len(Blocks) >= 1
        /\ DebugLabel \notin Range(content_box)

C11_Witness ==
    /\ html # <<>>
    /\ HasBlockTag(html[1])
    /\ ~Classifies(BodyChildren(html[1]))
    /\ BodyChildren(html[1]) # <<>>
    /\ tiers = <<1, 2, 3>>
    /\ Len(Blocks) = 2

(***************************************************************************)
(* C12: element_to_widget is defined on every element of the tree and      *)
(* returns a widget exactly for h1..h6 (a label of class article-hN, N the *)
(* digit of the tag), p (a label of class article-text), pre (a code       *)
(* block), blockquote, ul (an unordered list), ol (an ordered list) and    *)
(* img (an image); for any other tag it returns None and creates nothing,  *)
(* and a body whose only child is such an element with no recognized tag   *)
(* below it shows the empty Document.                                      *)
(***************************************************************************)
C12_ClassifierTotal ==
    LET Headings == {<<"h1", "article-h1">>, <<"h2", "article-h2">>,
                     <<"h3", "article-h3">>, <<"h4", "article-h4">>,
                     <<"h5", "article-h5">>, <<"h6", "article-h6">>}
        Kind(r) == <<r.some, r.widget.w>>
        Right(e, r) ==
            CASE \E h \in Headings : h[1] = e.tag ->
                    /\ Kind(r) = <<TRUE, "label">>
                    /\ <<e.tag, r.widget.css>> \in Headings
              [] e.tag = "p" ->
                    Kind(r) = <<TRUE, "label">> /\ r.widget.css = "article-text"
              [] e.tag = "pre" -> Kind(r) = <<TRUE, "code_block">>
              [] e.tag = "blockquote" -> Kind(r) = <<TRUE, "blockquote">>
              [] e.tag = "ul" -> Kind(r) = <<TRUE, "list">> /\ ~r.widget.ordered
              [] e.tag = "ol" -> Kind(r) = <<TRUE, "list">> /\ r.widget.ordered
              [] e.tag = "img" -> Kind(r) = <<TRUE, "image">> /\ Len(r.new) = 1
              [] OTHER -> r = [some |-> FALSE, widget |-> NoWidget, new |-> <<>>]
    IN  html # <<>> =>
          /\ \A m \in Range(Traverse(html[1], "#none")) :
                Right(m.el, element_to_widget(m.el, 1))
          /\ \A e \in Range(BodyChildren(html[1])) :
                LET r == element_to_widget(e, 1)
                IN  IF r.some
                    THEN Skeleton(content_box, img) = Skeleton(<<r.widget>>, r.new)
                    ELSE ~HasBlockTag(e) => content_box = <<DebugLabel>> /\ img = <<>>

C12_Witness ==
    /\ html # <<>>
    /\ Len(BodyChildren(html[1])) = 1
    /\ BodyChildren(html[1])[1].tag = "h3"
    /\ Len(content_box) = 1
    /\ content_box[1].css = "article-h3"
    /\ Len(hist) = MaxContainers

(***************************************************************************)
(* C13: the Document shown is made of the widgets element_to_widget gives  *)
(* for the candidates of the tier that was used, in the order of the       *)
(* candidates, those it returns None for left out: block i is the widget   *)
(* of the i-th candidate that classifies, and there are as many blocks as  *)
(* candidates that classify.                                               *)
(***************************************************************************)
C13_CandidateOrder ==
    html # <<>> =>
        LET candidates == TierSelect(html[1], tiers[Len(tiers)])
            classified == SelectSeq(candidates,
                                    LAMBDA e : element_to_widget(e, 1).some)
            Block(e)   == LET r == element_to_widget(e, 1)
                          IN  Skeleton(<<r.widget>>, r.new)[1]
        IN  /\ Len(Blocks) = Len(classified)
            /\ \A i \in DOMAIN classified :
                  Skeleton(Blocks, img)[i] = Block(classified[i])

C13_Witness ==
    /\ html # <<>>
    /\ tiers = <<1>>
    /\ Len(BodyChildren(html[1])) = 2
    /\ Len(content_box) = 2
    /\ content_box[1].w = "image"
    /\ content_box[2].w = "label"

(***************************************************************************)
(* C14: the blocks a build yields depend on the tree alone.  From every    *)
(* state reached, whatever was built and is shown, the build of any tree   *)
(* yields the blocks its build yields on a new renderer; and a step that   *)
(* builds again the tree built last leaves the blocks shown as they are.   *)
(***************************************************************************)
C14_SameTreeSameBlocks ==
    \A document \in Trees :
        LET again == render_html(content_box, document, Len(hist) + 1)
            fresh == render_html(<<>>, document, 1)
            held  == [c \in 1..(Len(hist) + Len(again.new)) |->
                        IF c <= Len(hist)
                        THEN (IF c \in DOMAIN img THEN img[c] ELSE [url |-> <<>>])
                        ELSE again.new[c - Len(hist)]]
        IN  Skeleton(again.box, held) = Skeleton(fresh.box, fresh.new)

C14_Deterministic ==
    []C14_SameTreeSameBlocks
      /\ [][html # <<>> /\ html' = html =>
              Skeleton(content_box', img') = Skeleton(content_box, img)]_vars

C14_Witness ==
    /\ html # <<>>
    /\ tiers = <<1, 2, 3>>
    /\ Len(ImagesOf(content_box)) = 1
    /\ ImagesOf(content_box)[1] = MaxContainers
    /\ vadjustment # 0

(***************************************************************************)
(* C15: from every state the build of every tree returns, and returns a    *)
(* content that is not empty; the build of a tree with no recognized block *)
(* tag at any depth tries the three selectors, creates no image container  *)
(* and shows the empty-state label and nothing else; whatever the tree, a  *)
(* build ends with either that label alone or blocks alone.                *)
(***************************************************************************)
C15_EmptyDocument ==
    /\ \A document \in Trees :
          LET built == render_html(content_box, document, Len(hist) + 1)
          IN  /\ built.box # <<>>
              /\ ~HasBlockTag(document) =>
                    built = [box |-> <<DebugLabel>>, new |-> <<>>, tiers |-> <<1, 2, 3>>]
    /\ html # <<>> =>
          /\ ~HasBlockTag(html[1]) =>
                /\ content_box = <<DebugLabel>>
                /\ Blocks = <<>>
                /\ tiers = <<1, 2, 3>>
                /\ DOMAIN img = {}
          /\ content_box # <<>>
          /\ content_box # <<DebugLabel>> =>
                \A i \in DOMAIN content_box :
                    content_box[i].w \in {"label", "code_block", "blockquote", "list", "image"}
                        /\ content_box[i] # DebugLabel

C15_Witness ==
    /\ html # <<>>
    /\ Len(BodyChildren(html[1])) = MaxBodyKids
    /\ ~HasBlockTag(html[1])
    /\ content_box = <<DebugLabel>>
    /\ Len(hist) > 0

(***************************************************************************)
(* C16: the markup of a paragraph that holds one text node has no raw <    *)
(* or >, each of its & starts one of the entities amp, lt, gt, and read as *)
(* markup it is exactly the characters of the text node; and when the text *)
(* nodes of a paragraph lie inside bold, italic and anchor elements only,  *)
(* the text of the markup is the text of the paragraph.                    *)
(***************************************************************************)
C16_TextRoundTrip ==
    LET kids == Paragraph.kids
        EntityAt(m, i) ==
            \E name \in {<<"a", "m", "p">>, <<"l", "t">>, <<"g", "t">>} :
                SubSeq(m, i + 1, i + Len(name) + 1) = name \o <<";">>
        NoRaw(m) ==
            \A i \in DOMAIN m :
                /\ m[i] \notin {"<", ">"}
                /\ m[i] = "&" => EntityAt(m, i)
    IN  html # <<>> =>
          /\ Len(kids) = 1 /\ kids[1].tag = "#text" =>
                /\ NoRaw(Shown)
                /\ Unescape(Shown) = [ok |-> TRUE, text |-> kids[1].text]
          /\ TagsUnder(Paragraph) \subseteq {"b", "strong", "i", "em", "a"} =>
                /\ ParseMarkup(Shown).ok
                /\ TextsOf(ParseMarkup(Shown).spans) = TextOf(Paragraph)

C16_Witness ==
    /\ html # <<>>
    /\ Paragraph.kids = <<TextNode(<<"&", "l", "t", ";">>)>>
    /\ Shown = <<"&", "a", "m", "p", ";", "l", "t", ";">>
    /\ Unescape(Shown).text = <<"&", "l", "t", ";">>

(***************************************************************************)
(* C17 as stated: the markup of a paragraph whose one child is an element  *)
(* other than strong, b, em, i, code and a is the escaped text of that     *)
(* element, and read as markup it is one text span holding exactly the     *)
(* text of the element.                                                    *)
(***************************************************************************)
C17_FlattenedTextEscaped ==
    LET kids == Paragraph.kids
    IN  html # <<>> /\ Len(kids) = 1
            /\ kids[1].tag \notin {"#text", "#comment", "strong", "b", "em", "i", "code", "a"} =>
          /\ Shown = encode_text(TextOf(kids[1]))
          /\ ParseMarkup(Shown) = [ok |-> TRUE, spans |-> AddChars(<<>>, TextOf(kids[1]))]

(***************************************************************************)
(* C18 as stated: the markup of a paragraph whose one child is an anchor   *)
(* with an href, with text and recognized inline elements inside, reads as *)
(* one link whose opening tag holds the href attribute and nothing else,   *)
(* and whose href value, ended by the first double quote, reads back as    *)
(* the href of the anchor.                                                 *)
(***************************************************************************)
C18_HrefEscaped ==
    LET kids   == Paragraph.kids
        parsed == ParseMarkup(Shown)
    IN  html # <<>> /\ Len(kids) = 1 /\ kids[1].tag = "a"
            /\ Attr(kids[1], "href") # <<>>
            /\ TagsUnder(kids[1]) \subseteq {"strong", "b", "em", "i", "code", "a"} =>
          /\ parsed.ok
          /\ Len(parsed.spans) = 1
          /\ parsed.spans[1].span = "Link"
          /\ HrefOf(parsed.spans[1].attr)
                = [ok |-> TRUE, text |-> Attr(kids[1], "href")[1]]

(***************************************************************************)
(* C19: the markup of a paragraph whose one child is an anchor without     *)
(* href is what extract_text_with_formatting gives for the children of the *)
(* anchor; with text and recognized inline elements inside, it reads as    *)
(* the spans of those children with no link among them, and for            *)
(* <a><i>x</i></a> as one italic span holding the text x.                  *)
(***************************************************************************)
C19_AnchorWithoutHref ==
    LET kids   == Paragraph.kids
        parsed == ParseMarkup(Shown)
    IN  html # <<>> /\ Len(kids) = 1 /\ kids[1].tag = "a"
            /\ Attr(kids[1], "href") = <<>> =>
          /\ Shown = extract_text_with_formatting(kids[1])
          /\ TagsUnder(kids[1]) \subseteq {"strong", "b", "em", "i", "code"} =>
                /\ parsed.ok
                /\ \A i \in DOMAIN parsed.spans : parsed.spans[i].span # "Link"
                /\ TextsOf(parsed.spans) = TextOf(kids[1])
          /\ kids[1].kids = <<Elem("i", <<>>, <<TextNode(<<"x">>)>>)>> =>
                parsed.spans = <<Span("Italic", <<>>, AddChars(<<>>, <<"x">>))>>

C19_Witness ==
    /\ html # <<>>
    /\ Paragraph.kids = <<Elem("a", <<>>, <<Elem("i", <<>>, <<TextNode(<<"x">>)>>)>>)>>
    /\ Shown = <<"<", "i", ">", "x", "<", "/", "i", ">">>

(***************************************************************************)
(* C20: when a paragraph holds text and recognized inline elements only    *)
(* (strong, b, em, i, code, a), its markup reads as spans that mirror the  *)
(* source: one span per element, siblings in document order, each span     *)
(* nested in the span of its parent element, bold in italic and italic in  *)
(* bold at any depth and inside links, none merged, dropped or reordered.  *)
(***************************************************************************)
C20_SpansMirrorSource ==
    LET parsed == ParseMarkup(Shown)
    IN  html # <<>>
            /\ TagsUnder(Paragraph) \subseteq {"strong", "b", "em", "i", "code", "a"} =>
          /\ parsed.ok
          /\ Shape(parsed.spans) = MirrorKids(Paragraph.kids, <<>>)

C20_Witness ==
    /\ html # <<>>
    /\ Paragraph.kids
          = <<Elem("em", <<>>, <<Elem("b", <<>>, <<TextNode(<<"x">>)>>), TextNode(<<"<">>)>>)>>
    /\ ParseMarkup(Shown).spans
          = <<Span("Italic", <<>>,
                   AddChars(<<Span("Bold", <<>>, AddChars(<<>>, <<"x">>))>>, <<"<">>))>>

(***************************************************************************)
(* C21: the children of a Blockquote are the Blocks of its child elements  *)
(* with a recognized tag, in order, each the Block the classifier gives    *)
(* for that element at the top of an article, a blockquote among them with *)
(* its own children in turn; a child element with another tag and a text   *)
(* node directly inside the blockquote give nothing.                       *)
(***************************************************************************)
C21_BlockquoteChildren ==
    LET Quoted(widget, element) ==
            LET recognized == SelectSeq(element.kids,
                                  LAMBDA n : IsElement(n) /\ n.tag \in BlockTags)
            IN  /\ widget.w = "blockquote"
                /\ Len(widget.kids) = Len(recognized)
                /\ \A i \in DOMAIN recognized :
                      <<widget.kids[i]>> = BuildAlone(Document(<<>>, <<recognized[i]>>))
        shown == Skeleton(content_box, img)
    IN  html # <<>> /\ TopElement.tag = "blockquote" =>
          /\ Len(shown) = 1
          /\ Quoted(shown[1], TopElement)
          /\ \A i \in DOMAIN TopElement.kids :
                TopElement.kids[i].tag = "blockquote" =>
                    \E k \in DOMAIN shown[1].kids :
                        Quoted(shown[1].kids[k], TopElement.kids[i])

C21_Witness ==
    /\ html # <<>>
    /\ TopElement = Elem("blockquote", <<>>,
                         <<Elem("blockquote", <<>>,
                                <<TextNode(<<"t">>), Image(<<"a">>)>>),
                           Elem("div", <<>>, <<Para(<<"x">>)>>)>>)
    /\ Skeleton(content_box, img)
          = <<[w |-> "blockquote",
               kids |-> <<[w |-> "blockquote",
                           kids |-> <<[w |-> "image", url |-> <<"a">>]>>]>>]>>

(***************************************************************************)
(* C22: the items of an ordered list carry the prefixes "1.", "2.", ...,   *)
(* "N." in item order: the prefix of the i-th item is the decimal numeral  *)
(* of i, without leading zero, followed by a full stop.  The items of an   *)
(* unordered list all carry the same bullet glyph.                         *)
(***************************************************************************)
C22_ListPrefixes ==
    LET IsDigit(c) == c \in {"0", "1", "2", "3", "4", "5", "6", "7", "8", "9"}
        Numbered(prefix, i) ==
            LET numeral == SubSeq(prefix, 1, Len(prefix) - 1)
            IN  /\ Len(prefix) >= 2
                /\ prefix[Len(prefix)] = "."
                /\ \A k \in DOMAIN numeral : IsDigit(numeral[k])
                /\ numeral[1] # "0"
                /\ NumberRead(numeral) = i
        items == ListShown.widget.items
    IN  ShowsList =>
          /\ ListShown.widget.w = "list"
          /\ ListShown.widget.ordered = (ListShown.element.tag = "ol")
          /\ ListShown.element.tag = "ol" =>
                \A i \in DOMAIN items : Numbered(items[i].prefix, i)
          /\ ListShown.element.tag = "ul" =>
                \A i \in DOMAIN items : items[i].prefix = <<"bullet">>

C22_Witness ==
    /\ ShowsList
    /\ TopElement = LongList("ol")
    /\ Len(content_box[1].items) >= 10
    /\ content_box[1].items[1].prefix = <<"1", ".">>
    /\ content_box[1].items[10].prefix = <<"1", "0", ".">>

(***************************************************************************)
(* C23 as stated: a List has exactly one item per li element that is a     *)
(* direct child of the list element, in order, the i-th item numbered i    *)
(* in an ordered list and holding the content of the i-th such child; the  *)
(* items of a list nested in an item are not items of the outer list and   *)
(* do not shift its numbering.                                             *)
(***************************************************************************)
C23_OneItemPerDirectChild ==
    LET direct == SelectSeq(ListShown.element.kids, LAMBDA n : n.tag = "li")
        items  == ListShown.widget.items
    IN  ShowsList =>
          /\ Len(items) = Len(direct)
          /\ \A i \in DOMAIN direct :
                /\ i \in DOMAIN items
                /\ items[i].markup = extract_text_with_formatting(direct[i])
                /\ ListShown.element.tag = "ol" =>
                      items[i].prefix = Decimal(i) \o <<".">>

C25_Sizing ==
    [][ \A c \in DOMAIN img :
          LET ends == {t \in DOMAIN tasks :
                          /\ tasks[t].container = c
                          /\ tasks[t].pc = "decoding" /\ tasks'[t].pc = "done"
                          /\ tasks[t].result.bytes \in Pictures}
          IN  /\ c \in DOMAIN img' /\ img'[c].size_request # img[c].size_request
                    => ends # {}
              /\ \A t \in ends :
                    LET source == Texture(tasks[t].result.bytes)
                        given  == img[c].allocated_width
                        height == img'[c].size_request[2]
                    IN  /\ ImageStateNext(c) = "Succeeded"
                        /\ Len(img'[c].size_request) = 2
                        /\ img'[c].size_request[1] = -1
                        /\ \E W \in {2048, source.width, given} :
                              /\ W <= 2048 /\ W <= source.width /\ W <= given
                              /\ height >= 0
                              /\ height * source.width <= W * source.height
                              /\ \/ W * source.height < (height + 1) * source.width
                                 \/ W * source.height = (height + 1) * source.width
    ]_vars

C25_Witness ==
    \E t \in DOMAIN tasks :
        /\ tasks[t].pc = "done"
        /\ tasks[t].result.bytes = "icon"
        /\ ImageState(tasks[t].container) = "Succeeded"
        /\ img[tasks[t].container].allocated_width = 5000
        /\ img[tasks[t].container].size_request = <<-1, 14>>

(***************************************************************************)
(* C25 as stated: the height requested for a picture is the one that goes  *)
(* with the width min(2048, layout width) at the aspect ratio of the       *)
(* source, whatever the size of the source, to within one unit.            *)
(***************************************************************************)
C25_Original ==
    [][ \A t \in DOMAIN tasks :
          /\ tasks[t].pc = "decoding" /\ tasks'[t].pc = "done"
          /\ tasks[t].result.bytes \in Pictures
          => LET c      == tasks[t].container
                 source == Texture(tasks[t].result.bytes)
                 W      == Min(2048, img[c].allocated_width)
                 height == img'[c].size_request[2]
             IN  /\ height * source.width <= W * source.height
                 /\ W * source.height <= (height + 1) * source.width
    ]_vars

(***************************************************************************)
(* C26: in the login dialog a Submit with an empty username or an empty    *)
(* password sets the error message, leaves is_loading as it was (false     *)
(* unless an earlier Submit is still being answered) and starts no         *)
(* authentication command; a Submit with both filled in sets is_loading,   *)
(* clears the error message and starts one command with the credentials    *)
(* entered; every SetUsername and SetPassword clears the error message.    *)
(***************************************************************************)
C26_LoginSubmit ==
    [][ /\ LoginSubmit /\ (login.username = "" \/ login.password = "") =>
              /\ login'.error_message = <<"Please enter both username and password">>
              /\ login'.is_loading = login.is_loading
              /\ login'.commands = login.commands
        /\ LoginSubmit /\ login.username # "" /\ login.password # "" =>
              /\ login'.is_loading
              /\ login'.error_message = <<>>
              /\ login'.commands
                    = login.commands \o <<[username |-> login.username,
                                           password |-> login.password]>>
        /\ (\E username \in Usernames : SetUsername(username)) =>
              login'.error_message = <<>>
        /\ (\E password \in Passwords : SetPassword(password)) =>
              login'.error_message = <<>>
    ]_vars

C26_Witness ==
    /\ login.is_loading
    /\ login.username = ""
    /\ login.error_message = <<"Please enter both username and password">>
    /\ Len(login.commands) = 1

(***************************************************************************)
(* C26 as stated: a Submit with an empty username or an empty password     *)
(* leaves is_loading false.                                                *)
(***************************************************************************)
C26_Original ==
    [][ LoginSubmit /\ (login.username = "" \/ login.password = "") =>
            /\ login'.error_message = <<"Please enter both username and password">>
            /\ login'.is_loading = FALSE
            /\ login'.commands = login.commands
    ]_vars

(***************************************************************************)
(* C27: in the add-bookmark dialog a Submit with an empty URL, or with a   *)
(* URL that starts with neither http:// nor https://, sets the matching    *)
(* error message, leaves is_loading as it was and sends no request; a      *)
(* Submit with an http(s) URL sets is_loading with no error message and    *)
(* sends one request for that URL.  After any sequence of SetUrl and       *)
(* Submit is_loading is true exactly if some Submit of the sequence saw an *)
(* http(s) URL, and while the dialog is open only if a request is in       *)
(* flight.                                                                 *)
(***************************************************************************)
C27_AddBookmarkSubmit ==
    /\ [](~add_bookmark.closed =>
            /\ add_bookmark.is_loading => add_bookmark.commands # <<>>
            /\ ~add_bookmark.answered =>
                  (add_bookmark.is_loading <=> add_bookmark.commands # <<>>))
    /\ [][ /\ AddBookmarkSubmit /\ add_bookmark.url = <<>> =>
                 /\ add_bookmark'.error_message = <<"Please enter a URL">>
                 /\ add_bookmark'.is_loading = add_bookmark.is_loading
                 /\ add_bookmark'.commands = add_bookmark.commands
           /\ (AddBookmarkSubmit /\ add_bookmark.url # <<>> /\ ~IsHttpUrl(add_bookmark.url)) =>
                 /\ add_bookmark'.error_message
                       = <<"URL must start with http:// or https://">>
                 /\ add_bookmark'.is_loading = add_bookmark.is_loading
                 /\ add_bookmark'.commands = add_bookmark.commands
           /\ AddBookmarkSubmit /\ IsHttpUrl(add_bookmark.url) =>
                 /\ add_bookmark'.is_loading
                 /\ add_bookmark'.error_message = <<>>
                 /\ add_bookmark'.commands
                       = add_bookmark.commands \o <<add_bookmark.url>>
       ]_vars

C27_Witness ==
    /\ ~add_bookmark.answered /\ ~add_bookmark.closed
    /\ add_bookmark.is_loading
    /\ add_bookmark.submitted = <<<<"a">>>>
    /\ add_bookmark.error_message = <<"URL must start with http:// or https://">>
    /\ add_bookmark.commands = <<<<"h", "t", "t", "p", "s", ":", "/", "/", "a">>>>

(***************************************************************************)
(* C27 as stated: after any sequence of SetUrl and Submit, is_loading is   *)
(* true only if the last Submit saw an http(s) URL.                        *)
(***************************************************************************)
C27_Original ==
    ~add_bookmark.answered /\ ~add_bookmark.closed /\ add_bookmark.is_loading =>
        /\ add_bookmark.submitted # <<>>
        /\ IsHttpUrl(add_bookmark.submitted[1])

(***************************************************************************)
(* C28 as stated: filter_articles returns, in the original order, exactly  *)
(* the articles whose title contains the search query ignoring case, that  *)
(* is holds somewhere the letters of the query one after the other, each   *)
(* in either case, and all the articles when the query is empty.           *)
(***************************************************************************)
C28_FilterIgnoringCase ==
    LET Folded(c) == IF c = "final_sigma" THEN "sigma" ELSE to_lower(c)
        ContainsIgnoringCase(title, query) ==
            \E k \in 0..(Len(title) - Len(query)) :
                \A j \in DOMAIN query : Folded(title[k + j]) = Folded(query[j])
        found  == filter_articles(app.search_query, app.all_articles)
        wanted == {i \in DOMAIN app.all_articles :
                      ContainsIgnoringCase(app.all_articles[i].title, app.search_query)}
    IN  /\ Len(found) = Cardinality(wanted)
        /\ \A k \in DOMAIN found :
              \E i \in wanted :
                  /\ found[k] = app.all_articles[i]
                  /\ Cardinality({j \in wanted : j < i}) = k - 1
        /\ app.search_query = <<>> => found = app.all_articles

(***************************************************************************)
(* C29: a step of the image machinery (a click that requests an image, the *)
(* first poll of its task, the return of its download, its continuation,   *)
(* the end of its decode) leaves the content as built: the same blocks, as *)
(* many and in the same order, and the same containers.  Exactly one       *)
(* image is concerned by the step, and every other image keeps its widgets *)
(* and its ImageState; the image concerned keeps its url.                  *)
(***************************************************************************)
C29_ImageEventsKeepBlocks ==
    [][LET concerned == {tasks'[t].container :
                            t \in {u \in DOMAIN tasks' :
                                      u \notin DOMAIN tasks \/ tasks'[u] # tasks[u]}}
       IN  tasks' # tasks =>
              /\ content_box' = content_box
              /\ Len(Blocks') = Len(Blocks)
              /\ \A i \in DOMAIN Blocks : Blocks'[i] = Blocks[i]
              /\ html' = html
              /\ DOMAIN img' = DOMAIN img
              /\ Cardinality(concerned) = 1
              /\ \A c \in DOMAIN img :
                    IF c \in concerned
                    THEN img'[c].url = img[c].url
                    ELSE img'[c] = img[c] /\ ImageStateNext(c) = ImageState(c)]_vars

\* Two images of one article have gone their ways, one to the picture and
\* one to the error icon, and a third task is still under way.
C29_Witness ==
    \E c, d \in Displayed :
        /\ ImageState(c) = "Succeeded"
        /\ ImageState(d) = "Failed"
        /\ Len(Blocks) >= 2
        /\ \E t \in DOMAIN tasks : tasks[t].pc = "done" /\ tasks[t].container = c
        /\ \E t \in DOMAIN tasks : tasks[t].pc = "done" /\ tasks[t].container = d

(***************************************************************************)
(* C30: the blocks of the Document shown come from one tier.  Of the tiers *)
(* evaluated in the build one gives, for its candidates alone, exactly the *)
(* blocks shown, and every other tier evaluated gave no block; the blocks  *)
(* shown are as many as the blocks of all the tiers evaluated together.    *)
(***************************************************************************)
C30_TiersExclusive ==
    html # <<>> =>
        LET TierBlocks(k) == LET r == AppendWidgets(TierSelect(html[1], k), 1)
                             IN  Skeleton(r.widgets, r.new)
            Count(k)      == IF k \in Range(tiers) THEN Len(TierBlocks(k)) ELSE 0
        IN  /\ \E k \in Range(tiers) :
                  /\ Skeleton(Blocks, img) = TierBlocks(k)
                  /\ \A j \in Range(tiers) \ {k} : TierBlocks(j) = <<>>
            /\ Len(Blocks) = Count(1) + Count(2) + Count(3)

\* The body has two children, neither of them a block; the one block shown
\* is the image found below one of them by the third tier.
C30_Witness ==
    /\ html # <<>>
    /\ Len(TierSelect(html[1], 1)) = 2
    /\ Len(TierSelect(html[1], 3)) = 1
    /\ tiers = <<1, 2, 3>>
    /\ Len(Blocks) = 1
    /\ Blocks[1].w = "image"

(***************************************************************************)
(* C31: under the scheduling of SpecLive every image that shows Requested  *)
(* or Decoding comes to show Succeeded or Failed, whatever its download    *)
(* returns (bytes that decode, bytes that do not, a transport error, the   *)
(* loss of the blocking task) and whether or not it is still displayed.    *)
(***************************************************************************)
C31_RequestedTerminates ==
    \A c \in 1..MaxContainers :
        (IF c \in DOMAIN img THEN ImageState(c) \in {"Requested", "Decoding"} ELSE FALSE)
            ~> (IF c \in DOMAIN img THEN ImageState(c) \in {"Succeeded", "Failed"}
                ELSE FALSE)

\* An image whose blocking task was lost has come to Failed while another
\* image, requested after it, is still Requested.
C31_Witness ==
    \E t, u \in DOMAIN tasks :
        /\ t < u
        /\ tasks[t].pc = "done"
        /\ tasks[t].result.kind = "join_error"
        /\ ImageState(tasks[t].container) = "Failed"
        /\ ImageState(tasks[u].container) = "Requested"

(***************************************************************************)
(* C32: no container ever has more than one task: the tasks spawned so far *)
(* work on different containers, an image that is NotRequested has none    *)
(* and any other image has exactly one.  While an image shows Requested or *)
(* Decoding no step, a click on its button included, spawns a task for it. *)
(***************************************************************************)
C32_OneTaskPerImage ==
    /\ [](/\ Cardinality(Captured) = Len(tasks)
          /\ \A c \in DOMAIN img :
                Cardinality(TasksOf(c)) = IF ImageState(c) = "NotRequested" THEN 0 ELSE 1)
    /\ [][\A c \in DOMAIN img :
            ImageState(c) \in {"Requested", "Decoding"} =>
               \A t \in DOMAIN tasks' : tasks'[t].container = c => t \in TasksOf(c)]_vars

\* Two images are shown, one Requested, whose button is there but not
\* sensitive, and one Decoding, which has no button left.
C32_Witness ==
    \E c, d \in Displayed :
        /\ ImageState(c) = "Requested"
        /\ ImageState(d) = "Decoding"
        /\ "button" \in Range(img[c].kids) /\ ~img[c].button.sensitive
        /\ "button" \notin Range(img[d].kids)
        /\ Len(tasks) = 2

(***************************************************************************)
(* C33: a step of a task whose container is not part of the content shown  *)
(* changes nothing of what is shown: content_box and the containers it     *)
(* shows stay as they are, each with its widgets and its ImageState, also  *)
(* when one of them is an image of the url the task downloads.             *)
(***************************************************************************)
C33_OldTasksLeaveNewDocument ==
    [][\A t \in DOMAIN tasks :
          tasks[t].container \notin Displayed /\ tasks'[t] # tasks[t] =>
             /\ content_box' = content_box
             /\ Displayed' = Displayed
             /\ \A c \in Displayed :
                   /\ img'[c] = img[c]
                   /\ ImageStateNext(c) = ImageState(c)]_vars

\* The task of an image of a replaced content is done and its own container
\* shows the picture, while the content shown holds an image of the same
\* url that is still NotRequested.
C33_Witness ==
    \E t \in DOMAIN tasks, c \in Displayed :
        /\ tasks[t].container \notin Displayed
        /\ tasks[t].pc = "done"
        /\ ImageState(tasks[t].container) = "Succeeded"
        /\ img[c].url = img[tasks[t].container].url
        /\ ImageState(c) = "NotRequested"
        /\ hist[c] = <<"NotRequested">>

RECURSIVE AllWidgets(_)
\* The widgets shown, at any depth: the blocks, the widgets inside the
\* blockquote boxes and the items of the list boxes.
AllWidgets(widgets) ==
    IF widgets = <<>> THEN <<>>
    ELSE LET first == Head(widgets)
         IN  <<first>>
                \o (CASE first.w = "blockquote" -> AllWidgets(first.kids)
                       [] first.w = "list" ->
                            [i \in DOMAIN first.items |-> [w |-> "item", css |-> ""]]
                       [] OTHER -> <<>>)
                \o AllWidgets(Tail(widgets))

\* The tags of the elements a widget of this kind is made for.
WidgetKind(widget) ==
    CASE widget.w = "image" -> {"img"}
      [] widget.w = "blockquote" -> {"blockquote"}
      [] widget.w = "list" -> {"ul", "ol"}
      [] widget.w = "item" -> {"li"}
      [] widget.w = "code_block" -> {"pre"}
      [] widget.w = "label" /\ widget.css = "article-text" -> {"p"}
      [] OTHER -> {"h1", "h2", "h3", "h4", "h5", "h6"}

(***************************************************************************)
(* C34 as stated: every source element contributes to the Document at most *)
(* once, whichever tier was used.  Each widget is made for one element of  *)
(* its own tags (an image container for an img, a blockquote box for a     *)
(* blockquote, a list box for a ul or ol, an item for a li, a label or a   *)
(* code block for a p, a heading or a pre), so the widgets of a kind       *)
(* shown, at any depth, are no more than the elements of those tags.       *)
(***************************************************************************)
C34_EachElementOnce ==
    html # <<>> =>
        LET shown    == AllWidgets(Blocks)
            elements == Elements(Traverse(html[1], "#none"))
        IN  \A i \in DOMAIN shown :
                Cardinality({j \in DOMAIN shown : WidgetKind(shown[j]) = WidgetKind(shown[i])})
                    <= Cardinality({j \in DOMAIN elements :
                                       elements[j].tag \in WidgetKind(shown[i])})

(***************************************************************************)
(* C35 as stated: once every scrape command has delivered its output, the  *)
(* content handed to the renderer is the page of the article selected, the *)
(* one whose title, uri and item id the App holds and whose title the      *)
(* renderer was given, in whichever order the outputs came.                *)
(***************************************************************************)
C35_ContentOfSelected ==
    (/\ app.article_uri # <<>>
     /\ \A k \in DOMAIN app.commands : app.commands[k].kind # "get_html") =>
        /\ app.emitted.SetContent = <<Scraped(app.article_uri[1])>>
        /\ app.article_html = app.emitted.SetContent
        /\ app.emitted.SetTitle = app.article_title
        /\ app.article_item_id = app.article_uri

(***************************************************************************)
(* C36 as stated: from a Logout to the next LoginCompleted, that is while  *)
(* the App holds no tokens, all_articles and the list shown are empty and  *)
(* there is no article cache, whatever the commands started before the     *)
(* Logout deliver.                                                         *)
(***************************************************************************)
C36_LoggedOutStaysEmpty ==
    ~app.tokens =>
        /\ app.all_articles = <<>>
        /\ app.articles = <<>>
        /\ app.cache = <<>>

(***************************************************************************)
(* C37 as stated: after every message and every command output handled,    *)
(* the list shown is filter_articles of all_articles and the search query: *)
(* all of all_articles, in order, when the query is empty.                 *)
(***************************************************************************)
C37_ListIsFiltered ==
    /\ app.articles = filter_articles(app.search_query, app.all_articles)
    /\ app.search_query = <<>> => app.articles = app.all_articles

(***************************************************************************)
(* C38 as stated: when a Submit of the dialog has succeeded, the service   *)
(* has been sent exactly one add-bookmark request for it: the one of the   *)
(* dialog whose answer was AddSuccess, and none by the App in handling the *)
(* BookmarkAdded output of the dialog.                                     *)
(***************************************************************************)
C38_OneRequestPerSubmit ==
    LET succeeded == /\ add_bookmark.output # <<>>
                     /\ add_bookmark.output[1] = "BookmarkAdded"
        by_dialog == IF succeeded THEN 1 ELSE 0
        by_app    == Len(app.added)
    IN  succeeded => by_dialog + by_app = 1

====
